---- MODULE Spec2Model ----
(***************************************************************************)
(* raw_zlib: the bounded-buffer streaming codec contract exercised by      *)
(* raw_zlib/test/test.py.                                                  *)
(*                                                                         *)
(* The callers (the tests' buffer-limiting context managers and their      *)
(* step loops) are modelled from the test sources.  The codec engine the   *)
(* binding loads is not part of the source tree; its stream session is     *)
(* modelled from sections 3, 4 and 6 of the specification: a z_stream      *)
(* record with caller-visible cursors and counters, session-owned pending  *)
(* output, a block buffer of consumed but not yet encoded input, and a     *)
(* small block format with a real encoder and a real resumable decoder.    *)
(***************************************************************************)
EXTENDS Integers, Sequences, FiniteSets, TLC

(***************************************************************************)
(* Bounds of the model.                                                    *)
(***************************************************************************)
\* longest plaintext
MaxLen == 2

\* plaintext alphabet
Byte == {0, 1}

Plains == UNION {[1..n -> Byte] : n \in 0..MaxLen}

(***************************************************************************)
(* Names used by the tests.                                                *)
(***************************************************************************)
WB_RAW == -15
WB_ZLIB == 15
WB_GZIP == 31

WindowBits == {WB_RAW, WB_ZLIB, WB_GZIP}

Z_OK == "Z_OK"
Z_STREAM_END == "Z_STREAM_END"
Z_NEED_DICT == "Z_NEED_DICT"
Z_STREAM_ERROR == "Z_STREAM_ERROR"
Z_DATA_ERROR == "Z_DATA_ERROR"
Z_BUF_ERROR == "Z_BUF_ERROR"

Z_NO_FLUSH == "Z_NO_FLUSH"
Z_PARTIAL_FLUSH == "Z_PARTIAL_FLUSH"
Z_SYNC_FLUSH == "Z_SYNC_FLUSH"
Z_FULL_FLUSH == "Z_FULL_FLUSH"
Z_FINISH == "Z_FINISH"
Z_BLOCK == "Z_BLOCK"

Flushes == {Z_NO_FLUSH, Z_PARTIAL_FLUSH, Z_SYNC_FLUSH, Z_FULL_FLUSH,
            Z_BLOCK, Z_FINISH}

Z_NO_COMPRESSION == 0
Z_BEST_SPEED == 1

Z_DEFAULT_STRATEGY == "Z_DEFAULT_STRATEGY"
Z_HUFFMAN_ONLY == "Z_HUFFMAN_ONLY"

Levels == {Z_NO_COMPRESSION, Z_BEST_SPEED}
Strategies == {Z_DEFAULT_STRATEGY, Z_HUFFMAN_ONLY}

Min(a, b) == IF a <= b THEN a ELSE b

Take(s, n) == SubSeq(s, 1, Min(n, Len(s)))
Drop(s, n) == SubSeq(s, Min(n, Len(s)) + 1, Len(s))

(***************************************************************************)
(* The toy block format.  A block is a type/final byte, a count byte and   *)
(* that many payload bytes.  A stored block carries the plaintext bytes;   *)
(* a coded block carries run tokens (one token per byte when back          *)
(* references are disabled).  Flush markers are empty blocks.  A coded     *)
(* block may also carry dictionary tokens: the distance of a byte from     *)
(* the end of the preset dictionary.                                       *)
(***************************************************************************)
\* input bytes that fill the block buffer
BlockSize == 2

STORED == 0
CODED == 1

BlockByte(btype, last) == 2 * btype + last
TypeOf(b) == b \div 2
LastOf(b) == b % 2

\* run token: byte value and run length 1..BlockSize
Token(byte, run) == 2 * (run - 1) + byte
TokByte(t) == t % 2
TokRun(t) == (t \div 2) + 1

RECURSIVE RunLen(_)
RunLen(data) ==
    IF Len(data) <= 1 THEN Len(data)
    ELSE IF data[2] = data[1] THEN 1 + RunLen(Tail(data)) ELSE 1

\* history the Window Manager keeps of the dictionaries it was given
MaxDist == 2

KeepLast(s) == SubSeq(s, Len(s) - Min(Len(s), MaxDist) + 1, Len(s))

\* dictionary token: distance 1..MaxDist from the end of the dictionary
DictToken(dist) == 2 * BlockSize + dist - 1
IsDictToken(t) == t >= 2 * BlockSize
TokDist(t) == t - 2 * BlockSize + 1

\* distance of the nearest occurrence of byte in the dictionary, 0 if none
RECURSIVE DictDist(_, _)
DictDist(dict, byte) ==
    IF dict = <<>> THEN 0
    ELSE IF dict[Len(dict)] = byte THEN 1
    ELSE LET d == DictDist(SubSeq(dict, 1, Len(dict) - 1), byte)
         IN IF d = 0 THEN 0 ELSE d + 1

RECURSIVE Tokens(_, _, _)
Tokens(data, strategy, dict) ==
    IF data = <<>> THEN <<>>
    ELSE IF strategy # Z_HUFFMAN_ONLY /\ DictDist(dict, data[1]) > 0
    THEN <<DictToken(DictDist(dict, data[1]))>>
             \o Tokens(Tail(data), strategy, dict)
    ELSE LET run == IF strategy = Z_HUFFMAN_ONLY THEN 1 ELSE RunLen(data)
         IN <<Token(data[1], run)>> \o Tokens(Drop(data, run), strategy, dict)

EncodeBlock(data, last, level, strategy, dict) ==
    IF level = Z_NO_COMPRESSION
    THEN <<BlockByte(STORED, last), Len(data)>> \o data
    ELSE LET toks == Tokens(data, strategy, dict)
         IN <<BlockByte(CODED, last), Len(toks)>> \o toks

\* running checksum of the plaintext, Adler style: (a, b)
RECURSIVE Adler(_, _)
Adler(ab, data) ==
    IF data = <<>> THEN ab
    ELSE LET a == (ab[1] + data[1]) % 16
         IN Adler(<<a, (ab[2] + a) % 16>>, Tail(data))

AdlerInit == <<1, 0>>

\* container selected by window_bits: 0 raw, 1 zlib, 2 gzip
Wrap(window_bits) ==
    IF window_bits < 0 THEN 0 ELSE IF window_bits > 15 THEN 2 ELSE 1

\* the compression level as the zlib header records it
LevelFlags(level, strategy) ==
    IF strategy = Z_HUFFMAN_ONLY \/ level < 2 THEN 0
    ELSE IF level < 6 THEN 1
    ELSE IF level = 6 THEN 2 ELSE 3

\* method byte and flag byte; the pair is a multiple of 31
ZlibHeader(level_flags, preset) ==
    LET h == 120 * 256 + 64 * level_flags + 32 * preset
    IN <<120, (h + 31 - (h % 31)) % 256>>

\* the dictionary checksum as the header carries it
DictId(adler) == <<0, 0, adler[2], adler[1]>>

\* adler is the checksum of the preset dictionary, if there is one
Header(wrap, level, strategy, dict, adler) ==
    IF wrap = 1
    THEN IF dict = <<>> THEN ZlibHeader(LevelFlags(level, strategy), 0)
         ELSE ZlibHeader(LevelFlags(level, strategy), 1) \o DictId(adler)
    ELSE IF wrap = 2 THEN <<31, 139, 8>>
    ELSE <<>>

Trailer(wrap, adler, total_in) ==
    IF wrap = 1 THEN <<0, 0, adler[2], adler[1]>>
    ELSE IF wrap = 2 THEN <<adler[1], total_in>>
    ELSE <<>>

(***************************************************************************)
(* Bind(e, F) is F(e) with e evaluated once.                               *)
(***************************************************************************)
Bind(e, F(_)) == CHOOSE r \in {F(x) : x \in {e}} : TRUE

(***************************************************************************)
(* Compression session.                                                    *)
(***************************************************************************)
DeflateInit(window_bits, level, strategy) ==
    [next_in |-> 0, avail_in |-> 0, total_in |-> 0,
     next_out |-> <<>>, avail_out |-> 0, total_out |-> 0,
     status |-> "INIT", wrap |-> Wrap(window_bits),
     level |-> level, strategy |-> strategy,
     pending |-> <<>>, window |-> <<>>, adler |-> AdlerInit,
     dict |-> <<>>, last_flush |-> "INITIAL", err |-> Z_OK]

\* order of the flush directives; the two internal values rank lowest
Rank(flush) ==
    CASE flush = "INITIAL" -> -4
      [] flush = "RETRY" -> -2
      [] flush = Z_NO_FLUSH -> 0
      [] flush = Z_BLOCK -> 1
      [] flush = Z_PARTIAL_FLUSH -> 2
      [] flush = Z_SYNC_FLUSH -> 4
      [] flush = Z_FULL_FLUSH -> 6
      [] flush = Z_FINISH -> 8

\* the pending output copied without regard to the caller's output span
flush_pending_all(s0) ==
    Bind(s0, LAMBDA s :
        LET n == Len(s.pending)
        IN [s EXCEPT !.next_out = @ \o Take(s.pending, n),
                     !.pending = Drop(s.pending, n),
                     !.avail_out = @ - n,
                     !.total_out = @ + n])

\* copy as much pending output as fits into the caller's output span
flush_pending(s0) ==
    Bind(s0, LAMBDA s :
        LET n == Min(Len(s.pending), s.avail_out)
        IN [s EXCEPT !.next_out = @ \o Take(s.pending, n),
                     !.pending = Drop(s.pending, n),
                     !.avail_out = @ - n,
                     !.total_out = @ + n])

\* append bytes to the pending output and flush
put_flush(s, bytes) == flush_pending([s EXCEPT !.pending = @ \o bytes])

\* read the whole input span into the block buffer
fill_window(s, buf) ==
    Bind(SubSeq(buf, s.next_in + 1, s.next_in + s.avail_in), LAMBDA data :
        [s EXCEPT !.window = @ \o data,
                  !.adler = Adler(@, data),
                  !.next_in = @ + s.avail_in,
                  !.total_in = @ + s.avail_in,
                  !.avail_in = 0])

\* emit the first n buffered bytes as one block and flush
flush_block(s, n, last) ==
    Bind(EncodeBlock(Take(s.window, n), last, s.level, s.strategy, s.dict),
         LAMBDA block : put_flush([s EXCEPT !.window = Drop(@, n)], block))

\* the block loop; yields <<session, block state>>
RECURSIVE deflate_blocks(_, _)
deflate_blocks(s, flush) ==
    IF Len(s.window) >= BlockSize
    THEN Bind(flush_block(s, BlockSize, 0), LAMBDA s1 :
             IF s1.avail_out = 0 THEN <<s1, "need_more">>
             ELSE deflate_blocks(s1, flush))
    ELSE IF flush = Z_NO_FLUSH THEN <<s, "need_more">>
    ELSE IF flush = Z_FINISH
    THEN Bind(flush_block(s, Len(s.window), 1), LAMBDA s1 :
             <<s1, IF s1.avail_out = 0 THEN "finish_started"
                   ELSE "finish_done">>)
    ELSE IF s.window # <<>>
    THEN Bind(flush_block(s, Len(s.window), 0), LAMBDA s1 :
             <<s1, IF s1.avail_out = 0 THEN "need_more" ELSE "block_done">>)
    ELSE <<s, "block_done">>

FlushMarker(flush) ==
    IF flush = Z_PARTIAL_FLUSH THEN <<BlockByte(CODED, 0), 0>>
    ELSE IF flush = Z_BLOCK THEN <<>>
    ELSE <<BlockByte(STORED, 0), 0>>

Ret(s, err) == [s EXCEPT !.err = err]

\* OK with the output span full: the next call must not be refused as idle
RetRetry(s) ==
    [s EXCEPT !.err = Z_OK,
              !.last_flush = IF s.avail_out = 0 THEN "RETRY" ELSE @]

\* the trailer, written once, then Ended when nothing is pending
deflate_finish(s, flush) ==
    IF flush # Z_FINISH THEN Ret(s, Z_OK)
    ELSE IF s.wrap <= 0 THEN Ret(s, Z_STREAM_END)
    ELSE Bind(put_flush([s EXCEPT !.wrap = -s.wrap],
                        Trailer(s.wrap, s.adler, s.total_in)),
              LAMBDA s1 :
                  Ret(s1, IF s1.pending # <<>> THEN Z_OK ELSE Z_STREAM_END))

\* after the block loop: the flush marker, then the trailer
deflate_flush(s, bstate, flush) ==
    IF bstate \in {"need_more", "finish_started"} THEN RetRetry(s)
    ELSE IF bstate = "block_done"
    THEN Bind(put_flush(s, FlushMarker(flush)), LAMBDA s1 :
             IF s1.avail_out = 0 THEN RetRetry(s1)
             ELSE deflate_finish(s1, flush))
    ELSE deflate_finish(s, flush)

\* start a new block or continue the current one
deflate_body(s, buf, flush) ==
    IF s.avail_in # 0 \/ s.window # <<>>
       \/ (flush # Z_NO_FLUSH /\ s.status # "FINISH")
    THEN Bind(fill_window(s, buf), LAMBDA s1 :
         Bind(deflate_blocks(s1, flush), LAMBDA r :
         Bind(IF r[2] \in {"finish_started", "finish_done"}
              THEN [r[1] EXCEPT !.status = "FINISH"] ELSE r[1],
              LAMBDA s2 : deflate_flush(s2, r[2], flush))))
    ELSE deflate_finish(s, flush)

\* write the container header on the first step
deflate_header(s, buf, flush) ==
    IF s.status = "INIT"
    THEN Bind(put_flush([s EXCEPT !.status = "BUSY",
                                  !.adler = IF s.wrap = 1 THEN AdlerInit
                                            ELSE @],
                        Header(s.wrap, s.level, s.strategy, s.dict, s.adler)),
              LAMBDA s1 :
                  IF s1.pending # <<>>
                  THEN [s1 EXCEPT !.err = Z_OK, !.last_flush = "RETRY"]
                  ELSE deflate_body(s1, buf, flush))
    ELSE deflate_body(s, buf, flush)

\* no more input may follow the first Z_FINISH
deflate_input(s, buf, flush) ==
    IF s.status = "FINISH" /\ s.avail_in # 0 THEN Ret(s, Z_BUF_ERROR)
    ELSE deflate_header(s, buf, flush)

\* step of a compression session: buf is the caller's input buffer
deflate(s0, buf, flush) ==
    Bind(s0, LAMBDA s :
        IF s.status = "FINISH" /\ flush # Z_FINISH THEN Ret(s, Z_STREAM_ERROR)
        ELSE IF s.avail_out = 0 THEN Ret(s, Z_BUF_ERROR)
        ELSE IF s.pending # <<>>
        THEN Bind(flush_pending([s EXCEPT !.last_flush = flush]), LAMBDA s1 :
                 IF s1.avail_out = 0
                 THEN [s1 EXCEPT !.err = Z_OK, !.last_flush = "RETRY"]
                 ELSE deflate_input(s1, buf, flush))
        ELSE IF s.avail_in = 0 /\ Rank(flush) <= Rank(s.last_flush)
                /\ flush # Z_FINISH
        THEN [s EXCEPT !.err = Z_BUF_ERROR, !.last_flush = flush]
        ELSE Bind([s EXCEPT !.last_flush = flush], LAMBDA s1 :
                 deflate_input(s1, buf, flush)))

\* the block function a level selects
Func(level) ==
    IF level = Z_NO_COMPRESSION THEN "stored"
    ELSE IF level <= 3 THEN "fast" ELSE "slow"

apply_params(s, level, strategy) ==
    [s EXCEPT !.level = level, !.strategy = strategy, !.err = Z_OK]

\* set_params: drain what was buffered under the old parameters first
deflateParams(s0, buf, level, strategy) ==
    Bind(s0, LAMBDA s :
        IF (strategy # s.strategy \/ Func(level) # Func(s.level))
           /\ s.last_flush # "INITIAL"
        THEN Bind(deflate(s, buf, Z_BLOCK), LAMBDA s1 :
                 IF s1.err = Z_STREAM_ERROR THEN s1
                 ELSE IF s1.avail_in # 0 \/ s1.window # <<>>
                 THEN Ret(s1, Z_BUF_ERROR)
                 ELSE apply_params(s1, level, strategy))
        ELSE apply_params(s, level, strategy))

\* set_dictionary of a compression session.  Refused for gzip framing, for
\* zlib framing after the header was written, and while consumed input
\* waits to be matched; a stored-only session has no such input and its
\* open block starts anew behind the dictionary.
deflateSetDictionary(s, dict) ==
    IF s.wrap = 2 \/ (s.wrap = 1 /\ s.status # "INIT")
       \/ (Func(s.level) # "stored" /\ s.window # <<>>)
    THEN Ret(s, Z_STREAM_ERROR)
    ELSE [s EXCEPT !.dict = KeepLast(@ \o dict),
                   !.adler = IF s.wrap = 1 THEN Adler(@, dict) ELSE @,
                   !.window = <<>>,
                   !.err = Z_OK]

(***************************************************************************)
(* Decompression session: a resumable parser of the block format.          *)
(***************************************************************************)
InflateInit(window_bits) ==
    [next_in |-> 0, avail_in |-> 0, total_in |-> 0,
     next_out |-> <<>>, avail_out |-> 0, total_out |-> 0,
     mode |-> "HEAD", wrap |-> Wrap(window_bits),
     last |-> 0, btype |-> STORED, count |-> 0, run |-> 0, runbyte |-> 0,
     have |-> <<>>, check |-> AdlerInit,
     hold |-> 0, bits |-> 0, dict |-> <<>>, havedict |-> FALSE,
     dictid |-> <<>>, err |-> Z_OK]

\* the parser can take eight bits from the bit accumulator or the input
HasByte(s) == s.bits >= 8 \/ s.avail_in > 0

\* the accumulator with the byte under the input cursor added, if needed
Acc(s, buf) ==
    IF s.bits >= 8 \/ s.avail_in = 0 THEN s.hold
    ELSE s.hold + buf[s.next_in + 1] * 2^s.bits

\* take eight bits; rest is what stays in the accumulator.  The byte under
\* the input cursor is consumed unless the accumulator held eight bits.
Pull(s, rest) ==
    IF s.bits >= 8 THEN [s EXCEPT !.hold = rest, !.bits = @ - 8]
    ELSE [s EXCEPT !.hold = rest,
                   !.next_in = @ + 1, !.avail_in = @ - 1, !.total_in = @ + 1]

\* a stored block starts at a byte boundary of the accumulator
Align(s) == [s EXCEPT !.hold = @ \div 2^(s.bits % 8), !.bits = @ - (@ % 8)]

\* produce one byte
Push(s, byte) ==
    [s EXCEPT !.next_out = Append(@, byte),
              !.avail_out = @ - 1,
              !.total_out = @ + 1,
              !.check = Adler(@, <<byte>>)]

HeaderLen(wrap) == IF wrap = 1 THEN 2 ELSE 3

HeaderOk(wrap, h) ==
    IF wrap = 1
    THEN h[1] % 16 = 8 /\ (h[1] * 256 + h[2]) % 31 = 0
    ELSE h = <<31, 139, 8>>

\* one transition of the parser on the next eight bits b (when it needs
\* them); yields <<session, "go" | return code>>
inflate_mode(s, b, rest, flush) ==
    CASE s.mode = "HEAD" ->
           IF s.wrap = 0 THEN <<[s EXCEPT !.mode = "TYPEDO"], "go">>
           ELSE IF ~HasByte(s) THEN <<s, Z_OK>>
           ELSE IF Len(s.have) + 1 < HeaderLen(s.wrap)
           THEN <<[Pull(s, rest) EXCEPT !.have = Append(@, b)], "go">>
           ELSE IF HeaderOk(s.wrap, Append(s.have, b))
           THEN <<[Pull(s, rest) EXCEPT
                      !.mode = IF s.wrap = 1 /\ (b \div 32) % 2 = 1
                               THEN "DICTID" ELSE "TYPE",
                      !.have = <<>>], "go">>
           ELSE <<[Pull(s, rest) EXCEPT !.mode = "BAD"], Z_DATA_ERROR>>
      [] s.mode = "DICTID" ->
           IF ~HasByte(s) THEN <<s, Z_OK>>
           ELSE IF Len(s.have) + 1 < Len(DictId(AdlerInit))
           THEN <<[Pull(s, rest) EXCEPT !.have = Append(@, b)], "go">>
           ELSE <<[Pull(s, rest) EXCEPT !.mode = "DICT",
                                        !.dictid = Append(s.have, b),
                                        !.have = <<>>], "go">>
      [] s.mode = "DICT" ->
           IF ~s.havedict THEN <<s, Z_NEED_DICT>>
           ELSE <<[s EXCEPT !.mode = "TYPE", !.check = AdlerInit], "go">>
      [] s.mode = "TYPE" ->
           IF flush = Z_BLOCK THEN <<s, Z_OK>>
           ELSE <<[s EXCEPT !.mode = "TYPEDO"], "go">>
      [] s.mode = "TYPEDO" ->
           IF s.last = 1 THEN <<[s EXCEPT !.mode = "CHECK"], "go">>
           ELSE IF ~HasByte(s) THEN <<s, Z_OK>>
           ELSE IF TypeOf(b) = STORED
           THEN <<Align([Pull(s, rest) EXCEPT !.mode = "LEN", !.btype = STORED,
                                              !.last = LastOf(b)]), "go">>
           ELSE IF TypeOf(b) = CODED
           THEN <<[Pull(s, rest) EXCEPT !.mode = "LEN", !.btype = CODED,
                                        !.last = LastOf(b)], "go">>
           ELSE <<[Pull(s, rest) EXCEPT !.mode = "BAD"], Z_DATA_ERROR>>
      [] s.mode = "LEN" ->
           IF ~HasByte(s) THEN <<s, Z_OK>>
           ELSE <<[Pull(s, rest) EXCEPT !.mode = "DATA", !.count = b], "go">>
      [] s.mode = "DATA" ->
           IF s.run > 0
           THEN IF s.avail_out = 0 THEN <<s, Z_OK>>
                ELSE <<[Push(s, s.runbyte) EXCEPT !.run = @ - 1], "go">>
           ELSE IF s.count = 0 THEN <<[s EXCEPT !.mode = "TYPE"], "go">>
           ELSE IF ~HasByte(s) THEN <<s, Z_OK>>
           ELSE IF s.btype = STORED
           THEN <<[Pull(s, rest) EXCEPT !.count = @ - 1, !.run = 1,
                                        !.runbyte = b], "go">>
           ELSE IF ~IsDictToken(b)
           THEN <<[Pull(s, rest) EXCEPT !.count = @ - 1, !.run = TokRun(b),
                                        !.runbyte = TokByte(b)], "go">>
           ELSE IF TokDist(b) <= Len(s.dict)
           THEN <<[Pull(s, rest) EXCEPT
                      !.count = @ - 1, !.run = 1,
                      !.runbyte = s.dict[Len(s.dict) - TokDist(b) + 1]],
                  "go">>
           ELSE <<[Pull(s, rest) EXCEPT !.mode = "BAD"], Z_DATA_ERROR>>
      [] s.mode = "CHECK" ->
           IF s.wrap = 0 THEN <<[s EXCEPT !.mode = "DONE"], "go">>
           ELSE IF ~HasByte(s) THEN <<s, Z_OK>>
           ELSE IF Len(s.have) + 1 < Len(Trailer(s.wrap, s.check, s.total_out))
           THEN <<[Pull(s, rest) EXCEPT !.have = Append(@, b)], "go">>
           ELSE IF Append(s.have, b) = Trailer(s.wrap, s.check, s.total_out)
           THEN <<[Pull(s, rest) EXCEPT !.mode = "DONE", !.have = @ \o <<b>>],
                  "go">>
           ELSE <<[Pull(s, rest) EXCEPT !.mode = "BAD"], Z_DATA_ERROR>>
      [] s.mode = "DONE" -> <<s, Z_STREAM_END>>
      [] OTHER -> <<s, Z_DATA_ERROR>>

\* the parser loop; yields <<session, return code>>
RECURSIVE inflate_loop(_, _, _)
inflate_loop(s, buf, flush) ==
    Bind(Acc(s, buf), LAMBDA acc :
    Bind(inflate_mode(s, acc % 256, acc \div 256, flush),
         LAMBDA r : IF r[2] = "go" THEN inflate_loop(r[1], buf, flush) ELSE r))

\* a step that forgets the run it was in the middle of
inflate_norun(s0, buf, flush) ==
    Bind([s0 EXCEPT !.run = 0], LAMBDA s :
    Bind(inflate_loop(IF s.mode = "TYPE" THEN [s EXCEPT !.mode = "TYPEDO"]
                      ELSE s, buf, flush),
         LAMBDA r :
             Ret(r[1], IF ((s.avail_in = r[1].avail_in
                            /\ s.avail_out = r[1].avail_out)
                           \/ flush = Z_FINISH) /\ r[2] = Z_OK
                       THEN Z_BUF_ERROR ELSE r[2])))

\* step of a decompression session: buf is the caller's input buffer
inflate(s0, buf, flush) ==
    Bind(s0, LAMBDA s :
    Bind(inflate_loop(IF s.mode = "TYPE" THEN [s EXCEPT !.mode = "TYPEDO"]
                      ELSE s, buf, flush),
         LAMBDA r :
             Ret(r[1], IF ((s.avail_in = r[1].avail_in
                            /\ s.avail_out = r[1].avail_out)
                           \/ flush = Z_FINISH) /\ r[2] = Z_OK
                       THEN Z_BUF_ERROR ELSE r[2])))

\* set_dictionary of a decompression session.  With a header it answers
\* the NeedsDictionary signal only, and the checksum must be the header's.
inflateSetDictionary(s, dict) ==
    IF s.wrap # 0 /\ s.mode # "DICT" THEN Ret(s, Z_STREAM_ERROR)
    ELSE IF s.mode = "DICT" /\ DictId(Adler(AdlerInit, dict)) # s.dictid
    THEN Ret(s, Z_DATA_ERROR)
    ELSE [s EXCEPT !.dict = KeepLast(@ \o dict),
                   !.havedict = TRUE,
                   !.err = Z_OK]

\* the step stopped at a block boundary: strm.data_type & 128
AtBlockBoundary(s) == s.mode = "TYPE"

\* pre-load the low bits of value into the bit accumulator
inflatePrime(s, bits, value) ==
    IF bits > 16 \/ s.bits + bits > 32 THEN Ret(s, Z_STREAM_ERROR)
    ELSE [s EXCEPT !.hold = @ + (value % 2^bits) * 2^s.bits,
                   !.bits = @ + bits,
                   !.err = Z_OK]

\* upper bound of the compressed size of n input bytes
deflateBound(n) == 3 + 3 * n + 2 + 4

\* the bound for a session: a preset dictionary adds its identifier to the
\* header still to be written
deflateBoundOf(s, n) ==
    deflateBound(n) + IF s.wrap = 1 /\ s.status = "INIT" /\ s.dict # <<>>
                      THEN Len(DictId(s.adler)) ELSE 0

\* reset: the session as deflateInit2 left it, with the level, the
\* strategy and the framing it has now; the caller's buffers stay
deflateReset(s) ==
    [s EXCEPT !.total_in = 0, !.total_out = 0,
              !.status = "INIT",
              !.wrap = IF @ < 0 THEN -@ ELSE @,
              !.pending = <<>>, !.window = <<>>, !.adler = AdlerInit,
              !.dict = <<>>, !.last_flush = "INITIAL", !.err = Z_OK]

\* teardown of a compression session: the state is released whatever the
\* session was doing; a session dropped in the middle of a stream is
\* reported, and so is a session that has no state any more
deflateEnd(s) ==
    IF s.status = "FREED" THEN Ret(s, Z_STREAM_ERROR)
    ELSE [s EXCEPT !.status = "FREED", !.pending = <<>>, !.window = <<>>,
                   !.dict = <<>>,
                   !.err = IF s.status = "BUSY" THEN Z_DATA_ERROR ELSE Z_OK]

\* teardown of a decompression session
inflateEnd(s) ==
    IF s.mode = "FREED" THEN Ret(s, Z_STREAM_ERROR)
    ELSE [s EXCEPT !.mode = "FREED", !.have = <<>>, !.dict = <<>>,
                   !.err = Z_OK]

\* the loop of the one-shot compression: Z_FINISH with all the input,
\* the destination handed over when the session has no output space
RECURSIVE compress_loop(_, _, _)
compress_loop(s, left, source) ==
    Bind(IF s.avail_out = 0 THEN [s EXCEPT !.avail_out = left] ELSE s,
         LAMBDA s1 :
    Bind(deflate(s1, source, Z_FINISH), LAMBDA after :
         IF after.err = Z_OK
         THEN compress_loop(after, IF s.avail_out = 0 THEN 0 ELSE left,
                            source)
         ELSE after))

\* one-shot compression into dest_len bytes: the session it ended with,
\* err the status returned, total_out the length returned
compress2(dest_len, source, level) ==
    Bind(compress_loop([DeflateInit(WB_ZLIB, level, Z_DEFAULT_STRATEGY)
                           EXCEPT !.avail_in = Len(source)],
                       dest_len, source),
         LAMBDA after :
             Ret(after, IF after.err = Z_STREAM_END THEN Z_OK ELSE after.err))

\* the loop of the one-shot decompression
RECURSIVE uncompress_loop(_, _, _)
uncompress_loop(s, left, source) ==
    Bind(IF s.avail_out = 0 THEN [s EXCEPT !.avail_out = left] ELSE s,
         LAMBDA s1 :
    Bind(inflate(s1, source, Z_NO_FLUSH), LAMBDA after :
         IF after.err = Z_OK
         THEN uncompress_loop(after, IF s.avail_out = 0 THEN 0 ELSE left,
                              source)
         ELSE <<after, IF s.avail_out = 0 THEN 0 ELSE left>>))

\* one-shot decompression into dest_len bytes.  A destination of no bytes
\* is replaced by a buffer of one byte of the operation's own, so that the
\* end of a stream of no plaintext can be seen.
uncompress2(dest_len, source) ==
    Bind(uncompress_loop([InflateInit(WB_ZLIB) EXCEPT
                             !.avail_in = Len(source)],
                         IF dest_len > 0 THEN dest_len ELSE 1, source),
         LAMBDA r :
    Bind(IF dest_len = 0 /\ r[1].total_out > 0 /\ r[1].err = Z_BUF_ERROR
         THEN 1 ELSE r[2],
         LAMBDA left :
             [strm |-> r[1],
              dest |-> IF dest_len > 0 THEN r[1].next_out ELSE <<>>,
              dest_len |-> IF dest_len > 0 THEN r[1].total_out ELSE 0,
              source_len |-> Len(source) - r[1].avail_in,
              err |-> IF r[1].err = Z_STREAM_END THEN Z_OK
                      ELSE IF r[1].err = Z_NEED_DICT THEN Z_DATA_ERROR
                      ELSE IF r[1].err = Z_BUF_ERROR
                              /\ left + r[1].avail_out > 0
                      THEN Z_DATA_ERROR
                      ELSE r[1].err]))

(***************************************************************************)
(* The callers.                                                            *)
(***************************************************************************)
\* limited calls a caller makes before it finishes the stream
MaxCalls == 2

\* the destination buffer: the bound plus room for the flush markers
DestLen(n) == deflateBound(n) + 2 * MaxCalls

NoLimit == DestLen(MaxLen)
\* the max_avail_in and max_avail_out values the tests pass
InLimits == {0, 1, NoLimit}
OutLimits == {0, 1, 2, NoLimit}

\* _limit_avail_in: hide all but max_size bytes of the input span
limit_avail_in(strm, max_size) ==
    [strm EXCEPT !.avail_in = Min(strm.avail_in, max_size)]

\* the input hidden from the call is never given back
restore_avail_in_lost(strm, avail_in0, avail_in1) == strm

\* on exit, give back what the call did not consume
restore_avail_in(strm, avail_in0, avail_in1) ==
    [strm EXCEPT !.avail_in = avail_in0 - (avail_in1 - strm.avail_in)]

\* the limit taken one byte short
limit_avail_out_short(strm, max_size) ==
    [strm EXCEPT !.avail_out = Min(strm.avail_out,
                                   IF max_size > 0 THEN max_size - 1 ELSE 0)]

limit_avail_out(strm, max_size) ==
    [strm EXCEPT !.avail_out = Min(strm.avail_out, max_size)]

\* the output space hidden from the call is never given back
restore_avail_out_lost(strm, avail_out0, avail_out1) == strm

restore_avail_out(strm, avail_out0, avail_out1) ==
    [strm EXCEPT !.avail_out = avail_out0 - (avail_out1 - strm.avail_out)]

limit_avail_in_out(strm, max_avail_in, max_avail_out) ==
    limit_avail_out(limit_avail_in(strm, max_avail_in), max_avail_out)

restore_avail_in_out(strm, before, limited) ==
    restore_avail_out(
        restore_avail_in(strm, before.avail_in, limited.avail_in),
        before.avail_out, limited.avail_out)

VARIABLES
    window_bits,  \* framing both sessions are created with
    plain,        \* the caller's input buffer
    dstrm,        \* compression session; its next_out is the dest buffer
    istrm,        \* decompression session; its next_out is plain2
    phase,        \* "deflate", "inflate", "done", "failed"
    ncalls,       \* limited calls made so far
    consumed_in,  \* input consumed, as the caller adds it up call by call
    consumed_out, \* output produced, as the caller adds it up call by call
    params,       \* deflateParams calls so far: "none", "ok", "buf_error"
    dictionary,   \* the dictionary of a one-dictionary test, <<>> if none
    dict1,        \* test_set_dictionary: the dictionary set at the start
    dict3,        \* test_set_dictionary: the dictionary set behind buf2
    buf2_len,     \* test_set_dictionary: plain is buf2 + buf4
    zbuf,         \* test_inflate_prime: the compressed buffer
    zbuf_pos,     \* test_inflate_prime: whole bytes _shl took off the front
    bits,         \* test_inflate_prime: bits the stream is shifted by
    value         \* test_inflate_prime: the bits _shl took off the front

\* the variables of the dictionary and priming tests
locals == <<dictionary, dict1, dict3, buf2_len, zbuf, zbuf_pos, bits, value>>

vars == <<window_bits, plain, dstrm, istrm, phase, ncalls,
          consumed_in, consumed_out, params, locals>>

\* the tests that use no dictionary and no priming
NoLocals ==
    /\ dictionary = <<>>
    /\ dict1 = <<>>
    /\ dict3 = <<>>
    /\ buf2_len = 0
    /\ zbuf = <<>>
    /\ zbuf_pos = 0
    /\ bits = 0
    /\ value = 0

\* the last byte of plain not supplied
MakeDeflateStream_short(wb, level, strategy, buf) ==
    [DeflateInit(wb, level, strategy) EXCEPT
        !.avail_in = IF Len(buf) > 0 THEN Len(buf) - 1 ELSE 0,
        !.avail_out = DestLen(Len(buf))]

\* dest allocated with one byte
MakeDeflateStream_tiny(wb, level, strategy, buf) ==
    [DeflateInit(wb, level, strategy) EXCEPT
        !.avail_in = Len(buf), !.avail_out = 1]

\* strm.next_in = plain; strm.avail_in = len(plain); strm.avail_out = len(dest)
MakeDeflateStream(wb, level, strategy, buf) ==
    [DeflateInit(wb, level, strategy) EXCEPT
        !.avail_in = Len(buf), !.avail_out = DestLen(Len(buf))]

\* the session created raw whatever window_bits is
MakeInflateStream_raw(wb, compressed_size, plain_size) ==
    [InflateInit(WB_RAW) EXCEPT
        !.avail_in = compressed_size, !.avail_out = plain_size]

\* plain2 allocated one byte short
MakeInflateStream_short(wb, compressed_size, plain_size) ==
    [InflateInit(wb) EXCEPT
        !.avail_in = compressed_size,
        !.avail_out = IF plain_size > 0 THEN plain_size - 1 ELSE 0]

\* strm.next_in = dest; avail_in = compressed_size; avail_out = len(plain2)
MakeInflateStream(wb, compressed_size, plain_size) ==
    [InflateInit(wb) EXCEPT
        !.avail_in = compressed_size, !.avail_out = plain_size]

Init ==
    /\ plain \in Plains
    /\ window_bits \in WindowBits
    /\ \E level \in Levels, strategy \in Strategies :
         dstrm = MakeDeflateStream(window_bits, level, strategy, plain)
    /\ istrm = InflateInit(window_bits)
    /\ phase = "deflate"
    /\ ncalls = 0
    /\ consumed_in = 0
    /\ consumed_out = 0
    /\ params = "none"
    /\ NoLocals

\* what was given counted as consumed
Consumed_given(given, after) == given

\* consumed_in += avail_in_given - strm.avail_in
Consumed(given, after) == given - after

\* the bookkeeping every compression call shares
DeflateCall(limited, after) ==
    \E strm \in {restore_avail_in_out(after, dstrm, limited)} :
       /\ dstrm' = strm
       /\ consumed_in' = consumed_in + Consumed(limited.avail_in, after.avail_in)
       /\ consumed_out' =
              consumed_out + Consumed(limited.avail_out, after.avail_out)
       /\ IF after.err = Z_STREAM_END
          THEN /\ phase' = "inflate"
               /\ istrm' = MakeInflateStream(
                               window_bits,
                               DestLen(Len(plain)) - strm.avail_out,
                               Len(plain))
          ELSE /\ phase' = IF after.err \in {Z_OK, Z_BUF_ERROR}
                           THEN "deflate" ELSE "failed"
               /\ istrm' = istrm
       /\ UNCHANGED <<window_bits, plain>>

\* with _limit_avail_in_out(strm, i, o): _assert_deflate_ok(strm, flush)
DeflateStep ==
    /\ phase = "deflate"
    /\ dstrm.status # "FINISH"
    /\ ncalls < MaxCalls
    /\ \E flush \in Flushes \ {Z_FINISH}, i \in InLimits, o \in OutLimits :
         \E limited \in {limit_avail_in_out(dstrm, i, o)} :
         \E after \in {deflate(limited, plain, flush)} :
            DeflateCall(limited, after)
    /\ ncalls' = ncalls + 1
    /\ UNCHANGED <<params, locals>>

\* the input given to the call taken as consumed, whatever the call left
DeflateParamsStep_skip ==
    /\ phase = "deflate"
    /\ dstrm.status # "FINISH"
    /\ ncalls < MaxCalls
    /\ \E level \in Levels, strategy \in Strategies,
          i \in InLimits, o \in OutLimits :
         \E limited \in {limit_avail_in_out(dstrm, i, o)} :
         \E after \in {deflateParams(limited, plain, level, strategy)} :
            /\ DeflateCall(limited, [after EXCEPT !.avail_in = 0])
            /\ params' = IF after.err = Z_BUF_ERROR \/ params = "buf_error"
                         THEN "buf_error" ELSE "ok"
    /\ ncalls' = ncalls + 1
    /\ UNCHANGED locals

\* with _limit_avail_in_out(strm, i, o): deflateParams(strm, level, strategy)
DeflateParamsStep ==
    /\ phase = "deflate"
    /\ dstrm.status # "FINISH"
    /\ ncalls < MaxCalls
    /\ \E level \in Levels, strategy \in Strategies,
          i \in InLimits, o \in OutLimits :
         \E limited \in {limit_avail_in_out(dstrm, i, o)} :
         \E after \in {deflateParams(limited, plain, level, strategy)} :
            /\ DeflateCall(limited, after)
            /\ params' = IF after.err = Z_BUF_ERROR \/ params = "buf_error"
                         THEN "buf_error" ELSE "ok"
    /\ ncalls' = ncalls + 1
    /\ UNCHANGED locals

\* _assert_deflate_stream_end: one Z_FINISH call with all that is left
DeflateEnd ==
    /\ phase = "deflate"
    /\ \E after \in {deflate(dstrm, plain, Z_FINISH)} :
         DeflateCall(dstrm, after)
    /\ UNCHANGED <<ncalls, params, locals>>

\* _check_inflate: one call with the whole stream and len(plain) of output
CheckInflate ==
    /\ phase = "inflate"
    /\ \E after \in {inflate(istrm, dstrm.next_out, Z_NO_FLUSH)} :
          /\ istrm' = after
          /\ phase' = IF after.err = Z_STREAM_END THEN "done" ELSE "failed"
    /\ UNCHANGED <<window_bits, plain, dstrm, ncalls, consumed_in,
                   consumed_out, params, locals>>

Next ==
    \/ DeflateStep
    \/ DeflateParamsStep
    \/ DeflateEnd
    \/ CheckInflate

Spec == Init /\ [][Next]_vars

(***************************************************************************)
(* The chunked callers: _deflate of the matrix test and the finishing      *)
(* loops of test_1, test_2 and test_3.  Input is fed in chunks with        *)
(* Z_NO_FLUSH, then Z_FINISH is repeated with all the input supplied until *)
(* it reports Z_STREAM_END.                                                *)
(***************************************************************************)
\* isize and osize values of the matrix
ChunkSizes == {1, 2, NoLimit}

\* every chunk flushed
Feed_sync ==
    /\ phase = "deflate"
    /\ dstrm.status # "FINISH"
    /\ dstrm.avail_in > 0
    /\ \E isize \in ChunkSizes, osize \in ChunkSizes :
         \E limited \in {limit_avail_in_out(dstrm, isize, osize)} :
         \E after \in {deflate(limited, plain, Z_SYNC_FLUSH)} :
            DeflateCall(limited, after)
    /\ ncalls' = ncalls + 1
    /\ UNCHANGED <<params, locals>>

\* _deflate: the next chunk of input, with Z_NO_FLUSH
Feed ==
    /\ phase = "deflate"
    /\ dstrm.status # "FINISH"
    /\ dstrm.avail_in > 0
    /\ \E isize \in ChunkSizes, osize \in ChunkSizes :
         \E limited \in {limit_avail_in_out(dstrm, isize, osize)} :
         \E after \in {deflate(limited, plain, Z_NO_FLUSH)} :
            DeflateCall(limited, after)
    /\ ncalls' = ncalls + 1
    /\ UNCHANGED <<params, locals>>

Finish ==
    /\ phase = "deflate"
    /\ \E osize \in ChunkSizes :
         \E limited \in {limit_avail_out(dstrm, osize)} :
         \E after \in {deflate(limited, plain, Z_FINISH)} :
            DeflateCall(limited, after)
    /\ ncalls' = ncalls + 1
    /\ UNCHANGED <<params, locals>>

NextChunks ==
    \/ Feed
    \/ Finish
    \/ CheckInflate

\* the loops run until they break: no caller stops in the middle
SpecChunks == Init /\ [][NextChunks]_vars /\ WF_vars(NextChunks)

(***************************************************************************)
(* The chunked decompressing callers: _inflate of the matrix test,         *)
(* test_deflate_params5 and the Z_BLOCK loop of test_set_dictionary.  The  *)
(* stream is one a compression session produced: an optional limited step  *)
(* with some flush directive, then Z_FINISH.                               *)
(***************************************************************************)
Compress(wb, level, strategy, buf, isize, flush) ==
    Bind(MakeDeflateStream(wb, level, strategy, buf), LAMBDA s0 :
    Bind(limit_avail_in(s0, isize), LAMBDA l1 :
    Bind(deflate(l1, buf, flush), LAMBDA s1 :
        deflate(restore_avail_in(s1, s0.avail_in, l1.avail_in), buf, Z_FINISH))))

InitInflate ==
    /\ plain \in Plains
    /\ window_bits \in WindowBits
    /\ \E level \in Levels, strategy \in Strategies, isize \in {0, 1},
          flush \in {Z_NO_FLUSH, Z_SYNC_FLUSH} :
         dstrm = Compress(window_bits, level, strategy, plain, isize, flush)
    /\ istrm = MakeInflateStream(window_bits, Len(dstrm.next_out), Len(plain))
    /\ phase = "inflate"
    /\ ncalls = 0
    /\ consumed_in = 0
    /\ consumed_out = 0
    /\ params = "none"
    /\ NoLocals

\* with _limit_avail_in_out(strm, i, o): inflate(strm, flush)
InflateStep ==
    /\ phase = "inflate"
    /\ \E flush \in {Z_NO_FLUSH, Z_BLOCK}, i \in ChunkSizes \cup {0},
          o \in ChunkSizes \cup {0} :
         \E limited \in {limit_avail_in_out(istrm, i, o)} :
         \E after \in {inflate(limited, dstrm.next_out, flush)} :
            /\ istrm' = restore_avail_in_out(after, istrm, limited)
            /\ consumed_in' =
                   consumed_in + Consumed(limited.avail_in, after.avail_in)
            /\ consumed_out' =
                   consumed_out + Consumed(limited.avail_out, after.avail_out)
            /\ phase' = IF after.err = Z_STREAM_END THEN "done"
                        ELSE IF after.err \in {Z_OK, Z_BUF_ERROR}
                        THEN "inflate" ELSE "failed"
    /\ UNCHANGED <<window_bits, plain, dstrm, ncalls, params, locals>>

SpecInflate == InitInflate /\ [][InflateStep]_vars

(***************************************************************************)
(* Properties.                                                             *)
(***************************************************************************)
\* the emitted bytes: what the compression session wrote into dest
Compressed == dstrm.next_out

\* a decompression session positioned on the whole emitted stream
WholeInflate ==
    inflate(MakeInflateStream(window_bits, Len(Compressed), Len(plain)),
            Compressed, Z_NO_FLUSH)

\* C1: round trip.  Once a Finish step has reported Ended, decompressing
\* the emitted bytes in a session of the same framing reports Ended and
\* yields exactly the plaintext, with exactly len(plain) bytes produced;
\* the test's own decompression ends the same way.
C1_RoundTrip ==
    /\ phase \in {"inflate", "done"} =>
         \A r \in {WholeInflate} :
            /\ r.err = Z_STREAM_END
            /\ r.next_out = plain
            /\ r.total_out = Len(plain)
            /\ r.avail_out = 0
    /\ phase = "done" => istrm.next_out = plain /\ istrm.total_out = Len(plain)

\* the round trip of a non-empty plaintext compressed in several steps
C1_Witness ==
    /\ phase = "done"
    /\ Len(plain) = MaxLen
    /\ ncalls > 0
    /\ istrm.next_out = plain

\* the compressed bytes of one unchunked Finish call with ample output
Unchunked ==
    deflate(MakeDeflateStream(window_bits, dstrm.level, dstrm.strategy, plain),
            plain, Z_FINISH)

\* C2: compression resumability.  When the chunked caller's Finish step
\* reports Ended, the bytes emitted over all its calls are the bytes one
\* unchunked Finish call emits.
C2_Resumable ==
    dstrm.err = Z_STREAM_END =>
        \A r \in {Unchunked} :
           /\ r.err = Z_STREAM_END
           /\ Compressed = r.next_out
           /\ dstrm.total_out = r.total_out

\* a stream that took at least four calls, so some gave one byte of output
C2_Witness ==
    /\ dstrm.err = Z_STREAM_END
    /\ ncalls >= 4
    /\ Len(plain) = MaxLen
    /\ dstrm.level = Z_BEST_SPEED

\* the logical end of the stream is consumed and all its output produced
AtEnd(s) == s.total_in = Len(Compressed) /\ s.total_out = Len(plain)

\* the call consumed or produced something
Progress(limited, after) ==
    after.avail_in < limited.avail_in \/ after.avail_out < limited.avail_out

C4_Progress ==
    /\ [](phase = "deflate" => dstrm.err = Z_OK)
    /\ <>(dstrm.err = Z_STREAM_END)

\* a Finish step that reported OK with more still to come
C4_Witness ==
    /\ phase = "deflate"
    /\ dstrm.status = "FINISH"
    /\ dstrm.err = Z_OK
    /\ dstrm.pending # <<>>
    /\ ncalls >= 2

\* the flush directives a caller may pass in the current state
Allowed == IF dstrm.status = "FINISH" THEN {Z_FINISH} ELSE Flushes

\* C5: a step called with at least one byte of output space while output
\* is pending emits at least one byte.
C5_PendingEmitted ==
    phase = "deflate" /\ dstrm.pending # <<>> =>
        \A flush \in Allowed, i \in InLimits, o \in OutLimits \ {0} :
        \A limited \in {limit_avail_in_out(dstrm, i, o)} :
        \A after \in {deflate(limited, plain, flush)} :
           /\ after.total_out > dstrm.total_out
           /\ Consumed(limited.avail_out, after.avail_out) >= 1
           /\ after.err \in {Z_OK, Z_STREAM_END}

\* output left pending by a step that filled its output space
C5_Witness ==
    /\ phase = "deflate"
    /\ dstrm.pending # <<>>
    /\ dstrm.total_out > 0
    /\ dstrm.last_flush = "RETRY"

C8_Totals ==
    /\ dstrm.total_in = consumed_in
    /\ dstrm.total_out = consumed_out

\* after set_params and a step that both consumed and produced
C8_Witness ==
    /\ phase = "deflate"
    /\ ncalls = MaxCalls
    /\ params # "none"
    /\ consumed_in > 0
    /\ consumed_out > 0
    /\ dstrm.pending # <<>>

\* the remaining lengths after a call, against those it was given
Within(limited, after) ==
    /\ after.avail_in \in 0..limited.avail_in
    /\ after.avail_out \in 0..limited.avail_out
    /\ after.next_in + after.avail_in = limited.next_in + limited.avail_in
    /\ Len(after.next_out) + after.avail_out
           = Len(limited.next_out) + limited.avail_out

\* C9: every step and every set_params call, whatever it returns, leaves
\* the remaining lengths between zero and what it was given, and moves
\* each cursor by exactly the decrease.
C9_Bounds ==
    /\ phase = "deflate" =>
         \A i \in InLimits, o \in OutLimits :
         \A limited \in {limit_avail_in_out(dstrm, i, o)} :
            /\ \A flush \in Allowed :
                 Within(limited, deflate(limited, plain, flush))
            /\ \A level \in Levels, strategy \in Strategies :
                 Within(limited, deflateParams(limited, plain, level, strategy))
    /\ phase = "inflate" =>
         \A i \in InLimits, o \in OutLimits, flush \in {Z_NO_FLUSH, Z_BLOCK} :
         \A limited \in {limit_avail_in_out(istrm, i, o)} :
            Within(limited, inflate(limited, Compressed, flush))

\* a call that reported the exhaustion signal with input still to come
C9_Witness ==
    /\ phase = "deflate"
    /\ dstrm.err = Z_BUF_ERROR
    /\ dstrm.avail_in > 0
    /\ dstrm.total_in > 0

\* decompression of a whole stream into len(plain) bytes
RoundTrip(bytes) ==
    inflate(MakeInflateStream(window_bits, Len(bytes), Len(plain)),
            bytes, Z_NO_FLUSH)

\* C10: once set_params has been called, with whatever bounds and whatever
\* it returned, the closing Finish step reports Ended and the stream it
\* completes decompresses to the plaintext.
C10_ParamsTransparent ==
    params # "none" =>
        /\ phase # "failed"
        /\ phase = "deflate" =>
             \A after \in {deflate(dstrm, plain, Z_FINISH)} :
                /\ after.err = Z_STREAM_END
                /\ \A r \in {RoundTrip(after.next_out)} :
                      r.err = Z_STREAM_END /\ r.next_out = plain
        /\ phase = "done" => istrm.next_out = plain /\ istrm.avail_out = 0

\* round trip after a set_params call that reported the exhaustion signal
C10_Witness ==
    /\ phase = "done"
    /\ params = "buf_error"
    /\ Len(plain) = MaxLen
    /\ istrm.next_out = plain

IsPrefix(a, b) == Len(a) <= Len(b) /\ a = SubSeq(b, 1, Len(a))

\* what a decompressor makes of the bytes emitted and pending so far
Decoded(s) == RoundTrip(s.next_out \o s.pending).next_out

\* C11: set_params keeps every byte.  What was emitted stays a prefix of
\* what is emitted, what was pending is emitted after it unchanged, the
\* input cursor moves by what the call consumed, and the bytes emitted,
\* pending and buffered always decode to exactly the input consumed so far.
C11_ParamsKeepBytes ==
    phase = "deflate" =>
        /\ Decoded(dstrm) \o dstrm.window = Take(plain, consumed_in)
        /\ dstrm.status # "FINISH" =>
             \A level \in Levels, strategy \in Strategies,
                i \in InLimits, o \in OutLimits :
             \A limited \in {limit_avail_in_out(dstrm, i, o)} :
             \A after \in {deflateParams(limited, plain, level, strategy)} :
                /\ IsPrefix(dstrm.next_out, after.next_out)
                /\ IsPrefix(dstrm.next_out \o dstrm.pending,
                            after.next_out \o after.pending)
                /\ after.next_in = dstrm.next_in
                       + Consumed(limited.avail_in, after.avail_in)
                /\ Decoded(after) \o after.window = Take(plain, after.next_in)

\* after a set_params call that consumed input, emitted part of the output
\* and left the rest pending
C11_Witness ==
    /\ phase = "deflate"
    /\ params # "none"
    /\ consumed_in > 0
    /\ dstrm.pending # <<>>
    /\ dstrm.next_out # <<>>

C13_ParamsReentrant ==
    phase = "deflate" /\ dstrm.status # "FINISH" =>
        \A level \in Levels, strategy \in Strategies,
           i \in InLimits, o \in OutLimits :
        \A limited \in {limit_avail_in_out(dstrm, i, o)} :
        \A after \in {deflateParams(limited, plain, level, strategy)} :
           /\ after.level # dstrm.level \/ after.strategy # dstrm.strategy =>
                after.window = <<>>
           /\ after.err = Z_BUF_ERROR =>
                /\ after.level = dstrm.level
                /\ after.strategy = dstrm.strategy
                /\ \A more \in {limit_avail_in(
                                   restore_avail_in_out(after, dstrm, limited),
                                   i)} :
                   \A again \in {deflateParams(more, plain, level, strategy)} :
                      /\ again.err = Z_OK
                      /\ again.level = level
                      /\ again.strategy = strategy
                      /\ again.window = <<>>
                      /\ again.pending = <<>>
                      /\ again.next_out = deflate(more, plain, Z_BLOCK).next_out
                      /\ Decoded(again) = Take(plain, again.next_in)

\* the exhaustion signal with input still buffered under the old parameters
C13_Witness ==
    /\ phase = "deflate"
    /\ params = "buf_error"
    /\ dstrm.err = Z_BUF_ERROR
    /\ dstrm.window # <<>>

(***************************************************************************)
(* The one-dictionary callers: test_deflate_params with its level pairs,   *)
(* test_set_dictionary2, test_set_dictionary3 and test_set_dictionary4,    *)
(* which set a dictionary and change the parameters before the first       *)
(* step, and _check_inflate with a dictionary.                             *)
(***************************************************************************)
\* for level in range(10)
AllLevels == 0..9

\* the dictionaries: not empty, no longer than the history
Dicts == UNION {[1..n -> Byte] : n \in 1..MaxDist}

InitDict ==
    /\ plain \in Plains
    /\ window_bits \in WindowBits
    /\ \E level \in AllLevels :
         dstrm = MakeDeflateStream(window_bits, level, Z_DEFAULT_STRATEGY,
                                   plain)
    /\ istrm = InflateInit(window_bits)
    /\ phase = "deflate"
    /\ ncalls = 0
    /\ consumed_in = 0
    /\ consumed_out = 0
    /\ params = "none"
    /\ NoLocals

\* the dictionary passed without its last byte
SetDictionary_short ==
    /\ phase = "deflate"
    /\ ncalls = 0
    /\ dictionary = <<>>
    /\ \E d \in Dicts :
         \E after \in {deflateSetDictionary(dstrm,
                                            SubSeq(d, 1, Len(d) - 1))} :
            /\ dstrm' = after
            /\ dictionary' = d
            /\ phase' = IF after.err = Z_OK THEN "deflate" ELSE "failed"
    /\ UNCHANGED <<window_bits, plain, istrm, ncalls, consumed_in,
                   consumed_out, params, dict1, dict3, buf2_len, zbuf,
                   zbuf_pos, bits, value>>

\* deflateSetDictionary(strm, dictionary, len(dictionary)); assert Z_OK
SetDictionary ==
    /\ phase = "deflate"
    /\ ncalls = 0
    /\ dictionary = <<>>
    /\ \E d \in Dicts :
         \E after \in {deflateSetDictionary(dstrm, d)} :
            /\ dstrm' = after
            /\ dictionary' = d
            /\ phase' = IF after.err = Z_OK THEN "deflate" ELSE "failed"
    /\ UNCHANGED <<window_bits, plain, istrm, ncalls, consumed_in,
                   consumed_out, params, dict1, dict3, buf2_len, zbuf,
                   zbuf_pos, bits, value>>

\* with _limit_avail_in(strm, chunk_size): deflateParams(strm, level, strategy)
DictParams ==
    /\ phase = "deflate"
    /\ ncalls < MaxCalls
    /\ \E level \in AllLevels, strategy \in Strategies, i \in InLimits :
         \E limited \in {limit_avail_in(dstrm, i)} :
         \E after \in {deflateParams(limited, plain, level, strategy)} :
            /\ DeflateCall(limited, after)
            /\ params' = IF after.err = Z_BUF_ERROR \/ params = "buf_error"
                         THEN "buf_error" ELSE "ok"
    /\ ncalls' = ncalls + 1
    /\ UNCHANGED locals

\* with _limit_avail_in(strm, chunk_size): _assert_deflate_ok(strm, Z_NO_FLUSH)
DictStep ==
    /\ phase = "deflate"
    /\ ncalls < MaxCalls
    /\ \E i \in InLimits :
         \E limited \in {limit_avail_in(dstrm, i)} :
         \E after \in {deflate(limited, plain, Z_NO_FLUSH)} :
            DeflateCall(limited, after)
    /\ ncalls' = ncalls + 1
    /\ UNCHANGED <<params, locals>>

\* the dictionary never set before the first call
InflateFirst_nodict ==
    /\ phase = "inflate"
    /\ \E after \in {inflate(istrm, dstrm.next_out, Z_NO_FLUSH)} :
          /\ istrm' = after
          /\ phase' = IF window_bits = WB_ZLIB /\ dictionary # <<>>
                      THEN IF after.err = Z_NEED_DICT THEN "need_dict"
                           ELSE "failed"
                      ELSE IF after.err = Z_STREAM_END THEN "done"
                      ELSE "failed"
    /\ UNCHANGED <<window_bits, plain, dstrm, ncalls, consumed_in,
                   consumed_out, params, locals>>

\* _check_inflate, up to its first inflate call.  With raw framing the
\* dictionary is set before the call; with zlib framing the call has to
\* ask for it.
InflateFirst ==
    /\ phase = "inflate"
    /\ \E s0 \in {IF window_bits = WB_RAW /\ dictionary # <<>>
                  THEN inflateSetDictionary(istrm, dictionary)
                  ELSE istrm} :
       \E after \in {inflate(s0, dstrm.next_out, Z_NO_FLUSH)} :
          /\ istrm' = after
          /\ phase' = IF s0.err # Z_OK THEN "failed"
                      ELSE IF window_bits = WB_ZLIB /\ dictionary # <<>>
                      THEN IF after.err = Z_NEED_DICT THEN "need_dict"
                           ELSE "failed"
                      ELSE IF after.err = Z_STREAM_END THEN "done"
                      ELSE "failed"
    /\ UNCHANGED <<window_bits, plain, dstrm, ncalls, consumed_in,
                   consumed_out, params, locals>>

\* a dictionary is set whatever the first call said
InflateSetDictionary_early ==
    /\ phase \in {"inflate", "need_dict"}
    /\ \E after \in {inflateSetDictionary(istrm, dictionary)} :
          /\ istrm' = after
          /\ phase' = IF after.err = Z_OK THEN "have_dict" ELSE "failed"
    /\ UNCHANGED <<window_bits, plain, dstrm, ncalls, consumed_in,
                   consumed_out, params, locals>>

\* _check_inflate: inflateSetDictionary in answer to Z_NEED_DICT
InflateSetDictionary ==
    /\ phase = "need_dict"
    /\ \E after \in {inflateSetDictionary(istrm, dictionary)} :
          /\ istrm' = after
          /\ phase' = IF after.err = Z_OK THEN "have_dict" ELSE "failed"
    /\ UNCHANGED <<window_bits, plain, dstrm, ncalls, consumed_in,
                   consumed_out, params, locals>>

\* _check_inflate: the second inflate call
InflateSecond ==
    /\ phase = "have_dict"
    /\ \E after \in {inflate(istrm, dstrm.next_out, Z_NO_FLUSH)} :
          /\ istrm' = after
          /\ phase' = IF after.err = Z_STREAM_END THEN "done" ELSE "failed"
    /\ UNCHANGED <<window_bits, plain, dstrm, ncalls, consumed_in,
                   consumed_out, params, locals>>

NextDict ==
    \/ SetDictionary
    \/ DictParams
    \/ DictStep
    \/ DeflateEnd
    \/ InflateFirst
    \/ InflateSetDictionary
    \/ InflateSecond

SpecDict == InitDict /\ [][NextDict]_vars

\* C14: with the whole destination buffer to drain into, set_params
\* reports OK for every new level 0..9 from every level 0..9, whatever part
\* of the input the call is given, before and after steps that consumed
\* input, and behind set_dictionary before the first step.
C14_ParamsOk ==
    phase = "deflate" /\ dstrm.status # "FINISH" =>
        \A level \in AllLevels, strategy \in Strategies, i \in InLimits :
        \A limited \in {limit_avail_in(dstrm, i)} :
        \A after \in {deflateParams(limited, plain, level, strategy)} :
           /\ after.err = Z_OK
           /\ after.level = level
           /\ after.strategy = strategy

\* level 9 reached by set_params after a dictionary was set and a step
\* consumed input under a level with another block function
C14_Witness ==
    /\ phase = "deflate"
    /\ dictionary # <<>>
    /\ params = "ok"
    /\ consumed_in > 0
    /\ dstrm.level = 9
    /\ dstrm.total_out > 0

\* the stream decoded by a session that was given no dictionary
NoDictionary == RoundTrip(Compressed)

\* C15: with a dictionary D set on the compressor before the first step,
\* for raw and for zlib framing, also when set_params is called between
\* set_dictionary and the first step, a decompressor given the same D
\* reproduces the plaintext and reports Ended.
C15_DictRoundTrip ==
    dictionary # <<>> /\ window_bits \in {WB_RAW, WB_ZLIB} =>
        /\ phase # "failed"
        /\ phase \notin {"deflate", "failed"} => dstrm.err = Z_STREAM_END
        /\ phase = "done" =>
             /\ istrm.err = Z_STREAM_END
             /\ istrm.next_out = plain
             /\ istrm.avail_out = 0
             /\ istrm.total_in = Len(Compressed)

\* a raw stream that cannot be decoded without the dictionary, made with
\* set_params between set_dictionary and the only step
C15_Witness ==
    /\ phase = "done"
    /\ dictionary # <<>>
    /\ window_bits = WB_RAW
    /\ params = "ok"
    /\ ncalls = 1
    /\ Len(plain) = MaxLen
    /\ NoDictionary.err = Z_DATA_ERROR

\* C16: with zlib framing the header carries the checksum of the
\* compressor's dictionary; set_dictionary with a dictionary of another
\* checksum fails with the mismatch error, and neither that call nor a
\* following step produces any plaintext.
C16_DictMismatch ==
    phase = "need_dict" =>
        /\ istrm.dictid = DictId(Adler(AdlerInit, dictionary))
        /\ \A d \in Dicts :
             DictId(Adler(AdlerInit, d)) # istrm.dictid =>
                \A r \in {inflateSetDictionary(istrm, d)} :
                \A after \in {inflate(r, Compressed, Z_NO_FLUSH)} :
                   /\ r.err = Z_DATA_ERROR
                   /\ r.next_out = <<>>
                   /\ r.dict = <<>>
                   /\ after.err = Z_NEED_DICT
                   /\ after.next_out = <<>>
                   /\ after.total_out = 0

\* a decompressor asking for the dictionary of a stream of two bytes
C16_Witness ==
    /\ phase = "need_dict"
    /\ window_bits = WB_ZLIB
    /\ Len(dictionary) = MaxDist
    /\ Len(plain) = MaxLen
    /\ \E d \in Dicts : DictId(Adler(AdlerInit, d)) # istrm.dictid

\* C17: with zlib framing and a compressor dictionary, the first step
\* reports NeedsDictionary and has produced nothing; set_dictionary with
\* the same dictionary then reports OK; the following step reports Ended
\* with the whole plaintext.  A decompressor with a header accepts
\* set_dictionary in no other state.
C17_NeedDict ==
    /\ window_bits = WB_ZLIB /\ dictionary # <<>> => phase # "failed"
    /\ phase = "need_dict" =>
         /\ istrm.err = Z_NEED_DICT
         /\ istrm.next_out = <<>>
         /\ istrm.total_out = 0
    /\ phase = "have_dict" => istrm.err = Z_OK /\ istrm.next_out = <<>>
    /\ phase = "done" /\ window_bits = WB_ZLIB /\ dictionary # <<>> =>
         /\ istrm.err = Z_STREAM_END
         /\ istrm.next_out = plain
    /\ phase \in {"inflate", "need_dict", "have_dict", "done"}
       /\ window_bits # WB_RAW =>
         \A d \in Dicts :
            inflateSetDictionary(istrm, d).err = Z_OK =>
               phase \in {"need_dict", "have_dict"}

\* Ended behind NeedsDictionary and set_dictionary
C17_Witness ==
    /\ phase = "done"
    /\ window_bits = WB_ZLIB
    /\ dictionary # <<>>
    /\ istrm.havedict
    /\ istrm.next_out = plain
    /\ Len(plain) = MaxLen

\* what a raw decompressor given the dictionary makes of the bytes emitted
\* and pending so far
RawDecoded ==
    inflate(inflateSetDictionary(
                MakeInflateStream(WB_RAW,
                                  Len(dstrm.next_out) + Len(dstrm.pending),
                                  Len(plain)),
                dictionary),
            dstrm.next_out \o dstrm.pending, Z_NO_FLUSH).next_out

\* input the session consumed and has not compressed yet
Waiting == RawDecoded # Take(plain, consumed_in)

\* the session with dictionary d added and nothing else changed
WithDict(s, d) == [s EXCEPT !.dict = KeepLast(@ \o d), !.err = Z_OK]

InitRotate ==
    /\ plain \in Plains
    /\ window_bits = WB_RAW
    /\ \E level \in Levels :
         dstrm = DeflateInit(WB_RAW, level, Z_DEFAULT_STRATEGY)
    /\ istrm = InflateInit(WB_RAW)
    /\ phase = "dict1"
    /\ ncalls = 0
    /\ consumed_in = 0
    /\ consumed_out = 0
    /\ params = "none"
    /\ dictionary = <<>>
    /\ dict1 = <<>>
    /\ dict3 = <<>>
    /\ buf2_len \in 1..Len(plain)
    /\ zbuf = <<>>
    /\ zbuf_pos = 0
    /\ bits = 0
    /\ value = 0

\* zfp.write(zbuf[:len(zbuf) - strm.avail_out]), inflated += buf[...]: the
\* output buffer of the turn is used up and the next turn brings a new one
Written(strm) == [strm EXCEPT !.avail_out = 0]

\* dict1 = self._set_dictionary(...); strm.next_in = buf2
RotSetDictionary1 ==
    /\ phase = "dict1"
    /\ \E d \in Dicts :
         \E after \in {deflateSetDictionary(dstrm, d)} :
            /\ dict1' = d
            /\ dstrm' = [after EXCEPT !.next_in = 0, !.avail_in = buf2_len]
            /\ phase' = IF after.err = Z_OK THEN "buf2" ELSE "failed"
    /\ UNCHANGED <<window_bits, plain, istrm, ncalls, consumed_in,
                   consumed_out, params, dictionary, dict3, buf2_len, zbuf,
                   zbuf_pos, bits, value>>

\* one turn of the Z_BLOCK loop: a fresh zbuf, _assert_deflate_ok, and
\* out of the loop when the call left output space
RotBlock ==
    /\ phase = "buf2"
    /\ \E o \in ChunkSizes :
         \E after \in {deflate([dstrm EXCEPT !.avail_out = o], plain,
                               Z_BLOCK)} :
            /\ dstrm' = Written(after)
            /\ phase' = IF after.err # Z_OK THEN "failed"
                        ELSE IF after.avail_out # 0 THEN "dict3"
                        ELSE "buf2"
    /\ UNCHANGED <<window_bits, plain, istrm, ncalls, consumed_in,
                   consumed_out, params, locals>>

\* dict3 = self._set_dictionary(...); strm.next_in = buf4
RotSetDictionary3 ==
    /\ phase = "dict3"
    /\ \E d \in Dicts :
         \E after \in {deflateSetDictionary(dstrm, d)} :
            /\ dict3' = d
            /\ dstrm' = [after EXCEPT !.next_in = buf2_len,
                                      !.avail_in = Len(plain) - buf2_len]
            /\ phase' = IF after.err = Z_OK THEN "buf4" ELSE "failed"
    /\ UNCHANGED <<window_bits, plain, istrm, ncalls, consumed_in,
                   consumed_out, params, dictionary, dict1, buf2_len, zbuf,
                   zbuf_pos, bits, value>>

\* the decompressor given the first bytes of dict1, as many as the window
\* holds
RotFinish_head ==
    /\ phase = "buf4"
    /\ \E o \in ChunkSizes :
         \E after \in {deflate([dstrm EXCEPT !.avail_out = o], plain,
                               Z_FINISH)} :
         \E strm \in {inflateSetDictionary(InflateInit(WB_RAW),
                                           Take(dict1, MaxDist))} :
            /\ dstrm' = Written(after)
            /\ istrm' = IF after.err = Z_STREAM_END THEN strm ELSE istrm
            /\ phase' = IF after.err = Z_STREAM_END
                        THEN IF strm.err = Z_OK THEN "read" ELSE "failed"
                        ELSE IF after.err = Z_OK THEN "buf4"
                        ELSE "failed"
    /\ UNCHANGED <<window_bits, plain, ncalls, consumed_in, consumed_out,
                   params, locals>>

\* one turn of the Z_FINISH loop; behind it the decompressor is created
\* and given dict1
RotFinish ==
    /\ phase = "buf4"
    /\ \E o \in ChunkSizes :
         \E after \in {deflate([dstrm EXCEPT !.avail_out = o], plain,
                               Z_FINISH)} :
         \E strm \in {inflateSetDictionary(InflateInit(WB_RAW), dict1)} :
            /\ dstrm' = Written(after)
            /\ istrm' = IF after.err = Z_STREAM_END THEN strm ELSE istrm
            /\ phase' = IF after.err = Z_STREAM_END
                        THEN IF strm.err = Z_OK THEN "read" ELSE "failed"
                        ELSE IF after.err = Z_OK THEN "buf4"
                        ELSE "failed"
    /\ UNCHANGED <<window_bits, plain, ncalls, consumed_in, consumed_out,
                   params, locals>>

\* zbuf = zfp.read(...): the next chunk of the stream, or the end of the
\* loop and the comparison when nothing is left
RotRead ==
    /\ phase = "read"
    /\ \E pos \in {istrm.next_in + istrm.avail_in} :
         IF pos = Len(dstrm.next_out)
         THEN /\ phase' = IF istrm.next_out = plain THEN "done" ELSE "failed"
              /\ istrm' = istrm
         ELSE \E c \in ChunkSizes :
                 /\ istrm' = [istrm EXCEPT
                                 !.next_in = pos,
                                 !.avail_in = Min(c, Len(dstrm.next_out) - pos)]
                 /\ phase' = "inflate"
    /\ UNCHANGED <<window_bits, plain, dstrm, ncalls, consumed_in,
                   consumed_out, params, locals>>

\* dict3 never given to the decompressor
RotInflate_nodict3 ==
    /\ phase = "inflate"
    /\ \E o \in ChunkSizes :
         \E after \in {inflate([istrm EXCEPT !.avail_out = o], dstrm.next_out,
                               Z_BLOCK)} :
            /\ istrm' = Written(after)
            /\ phase' = IF after.err = Z_STREAM_END
                        THEN IF after.next_out = plain THEN "done"
                             ELSE "failed"
                        ELSE IF after.err = Z_BUF_ERROR THEN "read"
                        ELSE IF after.err = Z_OK THEN "inflate"
                        ELSE "failed"
    /\ UNCHANGED <<window_bits, plain, dstrm, ncalls, consumed_in,
                   consumed_out, params, locals>>

\* one turn of the inner loop: a fresh buf, inflate(strm, Z_BLOCK), and
\* dict3 at the block boundary where total_out = len(buf2)
RotInflate ==
    /\ phase = "inflate"
    /\ \E o \in ChunkSizes :
         \E after \in {inflate([istrm EXCEPT !.avail_out = o], dstrm.next_out,
                               Z_BLOCK)} :
         \E swap \in {after.err = Z_OK /\ AtBlockBoundary(after)
                      /\ after.total_out = buf2_len} :
         \E strm \in {IF swap THEN inflateSetDictionary(after, dict3)
                      ELSE after} :
            /\ istrm' = Written(strm)
            /\ phase' = IF after.err = Z_STREAM_END
                        THEN IF after.next_out = plain THEN "done"
                             ELSE "failed"
                        ELSE IF after.err = Z_BUF_ERROR THEN "read"
                        ELSE IF after.err = Z_OK /\ strm.err = Z_OK
                        THEN "inflate"
                        ELSE "failed"
    /\ UNCHANGED <<window_bits, plain, dstrm, ncalls, consumed_in,
                   consumed_out, params, locals>>

NextRotate ==
    \/ RotSetDictionary1
    \/ RotBlock
    \/ RotSetDictionary3
    \/ RotFinish
    \/ RotRead
    \/ RotInflate

\* the test runs its loops to the end
SpecRotate == InitRotate /\ [][NextRotate]_vars /\ WF_vars(NextRotate)

\* C18: rotating dictionaries on raw framing.  No assertion of the test
\* fails, and the decompressor, given dict1 at the start and dict3 at the
\* block boundary where total_out = len(buf2), ends up reporting Ended
\* with buf2 + buf4 as its output.
C18_Rotating ==
    /\ [](phase # "failed")
    /\ [](phase = "done" => istrm.next_out = plain)
    /\ <>(phase = "done" /\ istrm.err = Z_STREAM_END
                         /\ istrm.next_out = plain)

\* Ended with two bytes, the second one a reference across dict3 into dict1
C18_Witness ==
    /\ phase = "done"
    /\ istrm.err = Z_STREAM_END
    /\ buf2_len = 1
    /\ Len(plain) = 2
    /\ dict1 # dict3
    /\ istrm.dict = dict1 \o dict3
    /\ \E k \in 1..Len(dstrm.next_out) : dstrm.next_out[k] = DictToken(MaxDist)

(***************************************************************************)
(* test_inflate_prime: a raw stream is shifted by some bits, the bits      *)
(* taken off its front are pre-loaded with inflatePrime, and one inflate   *)
(* call has to report Z_STREAM_END with the plaintext.                     *)
(***************************************************************************)
\* for bits in range(0, 17)
PrimeBits == 0..16

\* the value of the first n bytes of buf, the first byte lowest
RECURSIVE WholeBytes(_, _)
WholeBytes(buf, n) ==
    IF n = 0 THEN 0 ELSE buf[1] + 256 * WholeBytes(Tail(buf), n - 1)

\* the bits taken off below the byte boundary left out of the value
shl_nocarry(buf, nbits) ==
    LET buf_pos == nbits \div 8
        r == nbits % 8
    IN [value |-> WholeBytes(buf, buf_pos),
        buf_pos |-> buf_pos,
        buf |-> [i \in 1..Len(buf) |->
                    IF i <= buf_pos THEN buf[i]
                    ELSE (buf[i] \div 2^r)
                         + (IF i < Len(buf) THEN buf[i + 1] % 2^r ELSE 0)
                           * 2^(8 - r)]]

\* _shl: whole bytes are skipped and go into the value; the other bytes
\* are shifted down by the remaining bits, each taking the low bits of the
\* byte above it, and the low bits of the first of them go into the value
shl(buf, nbits) ==
    LET buf_pos == nbits \div 8
        r == nbits % 8
        carry == IF buf_pos < Len(buf) THEN buf[buf_pos + 1] % 2^r ELSE 0
    IN [value |-> WholeBytes(buf, buf_pos) + carry * 2^(8 * buf_pos),
        buf_pos |-> buf_pos,
        buf |-> [i \in 1..Len(buf) |->
                    IF i <= buf_pos THEN buf[i]
                    ELSE (buf[i] \div 2^r)
                         + (IF i < Len(buf) THEN buf[i + 1] % 2^r ELSE 0)
                           * 2^(8 - r)]]

InitPrime ==
    /\ plain \in Plains
    /\ window_bits = WB_RAW
    /\ \E level \in Levels, strategy \in Strategies :
         dstrm = [DeflateInit(WB_RAW, level, strategy) EXCEPT
                     !.avail_in = Len(plain),
                     !.avail_out = deflateBound(Len(plain))]
    /\ istrm = InflateInit(WB_RAW)
    /\ phase = "deflate"
    /\ ncalls = 0
    /\ consumed_in = 0
    /\ consumed_out = 0
    /\ params = "none"
    /\ dictionary = <<>>
    /\ dict1 = <<>>
    /\ dict3 = <<>>
    /\ buf2_len = 0
    /\ zbuf = <<>>
    /\ zbuf_pos = 0
    /\ bits \in PrimeBits
    /\ value = 0

\* self._assert_deflate_stream_end(strm): zbuf holds the stream, zeros
\* behind it
PrimeDeflate ==
    /\ phase = "deflate"
    /\ \E after \in {deflate(dstrm, plain, Z_FINISH)} :
          /\ dstrm' = after
          /\ zbuf' = after.next_out \o [i \in 1..after.avail_out |-> 0]
          /\ phase' = IF after.err = Z_STREAM_END THEN "shl" ELSE "failed"
    /\ UNCHANGED <<window_bits, plain, istrm, ncalls, consumed_in,
                   consumed_out, params, dictionary, dict1, dict3, buf2_len,
                   zbuf_pos, bits, value>>

\* value, zbuf_pos = self._shl(zbuf, bits)
PrimeShl ==
    /\ phase = "shl"
    /\ \E r \in {shl(zbuf, bits)} :
          /\ value' = r.value
          /\ zbuf_pos' = r.buf_pos
          /\ zbuf' = r.buf
    /\ phase' = "prime"
    /\ UNCHANGED <<window_bits, plain, dstrm, istrm, ncalls, consumed_in,
                   consumed_out, params, dictionary, dict1, dict3, buf2_len,
                   bits>>

\* eight bits pre-loaded whatever the bit count is
PrimeStream_byte ==
    /\ phase = "prime"
    /\ istrm' = inflatePrime(
                    [InflateInit(WB_RAW) EXCEPT
                        !.next_in = zbuf_pos,
                        !.avail_in = Len(dstrm.next_out) - zbuf_pos,
                        !.avail_out = Len(plain)],
                    8, value)
    /\ phase' = "inflate"
    /\ UNCHANGED <<window_bits, plain, dstrm, ncalls, consumed_in,
                   consumed_out, params, locals>>

\* the decompressor on zbuf from zbuf_pos; inflatePrime(strm, bits, value)
PrimeStream ==
    /\ phase = "prime"
    /\ istrm' = inflatePrime(
                    [InflateInit(WB_RAW) EXCEPT
                        !.next_in = zbuf_pos,
                        !.avail_in = Len(dstrm.next_out) - zbuf_pos,
                        !.avail_out = Len(plain)],
                    bits, value)
    /\ phase' = "inflate"
    /\ UNCHANGED <<window_bits, plain, dstrm, ncalls, consumed_in,
                   consumed_out, params, locals>>

\* err = inflate(strm, Z_NO_FLUSH); assert Z_STREAM_END and the plaintext
PrimeInflate ==
    /\ phase = "inflate"
    /\ \E after \in {inflate(istrm, zbuf, Z_NO_FLUSH)} :
          /\ istrm' = after
          /\ phase' = IF after.err = Z_STREAM_END /\ after.next_out = plain
                      THEN "done" ELSE "failed"
    /\ UNCHANGED <<window_bits, plain, dstrm, ncalls, consumed_in,
                   consumed_out, params, locals>>

NextPrime ==
    \/ PrimeDeflate
    \/ PrimeShl
    \/ PrimeStream
    \/ PrimeInflate

SpecPrime == InitPrime /\ [][NextPrime]_vars

\* the stream holds a stored block
RECURSIVE HasStored(_)
HasStored(bytes) ==
    IF Len(bytes) < 2 THEN FALSE
    ELSE TypeOf(bytes[1]) = STORED \/ HasStored(Drop(bytes, 2 + bytes[2]))

Outcome(s) ==
    <<s.err, s.avail_in, s.avail_out, s.total_in, s.total_out, s.next_out>>

\* C21: prime(bits=0, value=0) is a no-op.  The session it was called on
\* is the session it was not called on; fed the same input in the same
\* pieces, step by step, the two report the same statuses, consume and
\* produce the same byte counts and produce the same output.  This holds
\* for a new session of every framing.
C21_PrimeNoOp ==
    /\ \A wb \in WindowBits :
          inflatePrime(InflateInit(wb), 0, 0) = InflateInit(wb)
    /\ bits = 0 /\ phase = "inflate" =>
          \A plainer \in {MakeInflateStream(WB_RAW, Len(Compressed),
                                            Len(plain))} :
             /\ value = 0 /\ zbuf_pos = 0
             /\ Take(zbuf, Len(Compressed)) = Compressed
             /\ istrm = plainer
             /\ \A f1 \in {Z_NO_FLUSH, Z_BLOCK}, i \in InLimits,
                   o \in OutLimits :
                \A l1 \in {limit_avail_in_out(istrm, i, o)} :
                \A p1 \in {inflate(l1, zbuf, f1)},
                   q1 \in {inflate(limit_avail_in_out(plainer, i, o),
                                   Compressed, f1)} :
                   /\ Outcome(p1) = Outcome(q1)
                   /\ \A f2 \in {Z_NO_FLUSH, Z_BLOCK} :
                      \A l2 \in {restore_avail_in_out(p1, istrm, l1)} :
                         Outcome(inflate(l2, zbuf, f2))
                             = Outcome(inflate(
                                   restore_avail_in_out(q1, plainer, l1),
                                   Compressed, f2))
    /\ bits = 0 /\ phase = "done" => Outcome(istrm) = Outcome(WholeInflate)

\* the primed session decompressed two bytes, no bit pre-loaded
C21_Witness ==
    /\ phase = "done"
    /\ bits = 0
    /\ value = 0
    /\ istrm.bits = 0
    /\ Len(plain) = MaxLen
    /\ istrm.next_out = plain

\* C22: PartialFlush and SyncFlush hold nothing back.  A step given some
\* output space that returns with output space left over reports OK or the
\* exhaustion signal, has consumed the input it was given, keeps nothing
\* buffered or pending, and what is emitted so far decodes to all the
\* input consumed so far.  A step whose output space is smaller than what
\* there is to emit fills it completely and reports OK; the closing Finish
\* step then emits the rest behind it, and the whole decodes to the
\* plaintext.  The steps are those the caller has room for in dest.
C22_FlushComplete ==
    phase = "deflate" /\ dstrm.status # "FINISH" /\ ncalls < MaxCalls =>
        \A flush \in {Z_PARTIAL_FLUSH, Z_SYNC_FLUSH},
           i \in InLimits, o \in OutLimits \ {0} :
        \A limited \in {limit_avail_in_out(dstrm, i, o)} :
        \A after \in {deflate(limited, plain, flush)},
           ample \in {deflate(limit_avail_in(dstrm, i), plain, flush)} :
           /\ after.avail_out > 0 =>
                /\ after.err \in {Z_OK, Z_BUF_ERROR}
                /\ after.avail_in = 0
                /\ after.window = <<>>
                /\ after.pending = <<>>
                /\ RoundTrip(after.next_out).next_out
                       = Take(plain, after.total_in)
           /\ ample.total_out - dstrm.total_out > limited.avail_out =>
                /\ after.avail_out = 0
                /\ after.err = Z_OK
                /\ after.status # "FINISH"
                /\ \A later \in {deflate(
                                     restore_avail_in_out(after, dstrm, limited),
                                     plain, Z_FINISH)} :
                      /\ later.err = Z_STREAM_END
                      /\ IsPrefix(after.next_out, later.next_out)
                      /\ \A r \in {RoundTrip(later.next_out)} :
                            r.err = Z_STREAM_END /\ r.next_out = plain

\* test_small_out: the first step got the two bytes the zlib header takes
C22_Witness ==
    /\ phase = "deflate"
    /\ window_bits = WB_ZLIB
    /\ ncalls = 1
    /\ params = "none"
    /\ dstrm.err = Z_OK
    /\ dstrm.total_out = 2
    /\ dstrm.next_out = Header(1, dstrm.level, dstrm.strategy, <<>>, AdlerInit)
    /\ dstrm.total_in = Len(plain)
    /\ dstrm.pending # <<>>
    /\ Len(plain) = MaxLen

(***************************************************************************)
(* _deflate_blocks and test_inflate_performace: a raw segment that one     *)
(* Z_FULL_FLUSH step produced is fed to one decompression session over     *)
(* and over, until the deadline.                                           *)
(***************************************************************************)
\* turns of the loop before the deadline
MaxRepeat == 3

InitBlocks ==
    /\ plain \in Plains
    /\ window_bits = WB_RAW
    /\ \E level \in Levels, strategy \in Strategies :
         dstrm = [DeflateInit(WB_RAW, level, strategy) EXCEPT
                     !.avail_in = Len(plain),
                     !.avail_out = deflateBound(Len(plain))]
    /\ istrm = InflateInit(WB_RAW)
    /\ phase = "deflate"
    /\ ncalls = 0
    /\ consumed_in = 0
    /\ consumed_out = 0
    /\ params = "none"
    /\ NoLocals

\* deflate(strm, Z_FULL_FLUSH) into zbuf, then strm.next_out = zbuf_finish
BlocksFull ==
    /\ phase = "deflate"
    /\ \E after \in {deflate(dstrm, plain, Z_FULL_FLUSH)} :
          /\ zbuf' = after.next_out
          /\ dstrm' = [after EXCEPT !.next_out = <<>>,
                                    !.avail_out = deflateBound(Len(plain))]
          /\ phase' = IF after.err = Z_OK /\ after.avail_in = 0
                      THEN "finish" ELSE "failed"
    /\ UNCHANGED <<window_bits, plain, istrm, ncalls, consumed_in,
                   consumed_out, params, dictionary, dict1, dict3, buf2_len,
                   zbuf_pos, bits, value>>

\* deflate(strm, Z_FINISH) into zbuf_finish; the decompression session
BlocksFinish ==
    /\ phase = "finish"
    /\ \E after \in {deflate(dstrm, plain, Z_FINISH)} :
          /\ dstrm' = after
          /\ phase' = IF after.err = Z_STREAM_END THEN "inflate" ELSE "failed"
    /\ istrm' = InflateInit(WB_RAW)
    /\ UNCHANGED <<window_bits, plain, ncalls, consumed_in, consumed_out,
                   params, locals>>

\* the session is fed the segment and what the Finish step wrote behind it
BlocksInflate_whole ==
    /\ phase = "inflate"
    /\ ncalls < MaxRepeat
    /\ \E whole \in {zbuf \o dstrm.next_out} :
       \E after \in {inflate([istrm EXCEPT !.next_in = 0,
                                            !.avail_in = Len(whole),
                                            !.next_out = <<>>,
                                            !.avail_out = Len(plain)],
                              whole, Z_NO_FLUSH)} :
          /\ istrm' = after
          /\ phase' = IF after.err = Z_OK /\ after.avail_in = 0
                         /\ after.avail_out = 0
                      THEN "inflate" ELSE "failed"
    /\ ncalls' = ncalls + 1
    /\ UNCHANGED <<window_bits, plain, dstrm, consumed_in, consumed_out,
                   params, locals>>

\* one turn of the loop: the cursors are set back to the start of zbuf and
\* of buf, then inflate(strm, Z_NO_FLUSH)
BlocksInflate ==
    /\ phase = "inflate"
    /\ ncalls < MaxRepeat
    /\ \E after \in {inflate([istrm EXCEPT !.next_in = 0,
                                            !.avail_in = Len(zbuf),
                                            !.next_out = <<>>,
                                            !.avail_out = Len(plain)],
                              zbuf, Z_NO_FLUSH)} :
          /\ istrm' = after
          /\ phase' = IF after.err = Z_OK /\ after.avail_in = 0
                         /\ after.avail_out = 0
                      THEN "inflate" ELSE "failed"
    /\ ncalls' = ncalls + 1
    /\ UNCHANGED <<window_bits, plain, dstrm, consumed_in, consumed_out,
                   params, locals>>

NextBlocks ==
    \/ BlocksFull
    \/ BlocksFinish
    \/ BlocksInflate

SpecBlocks == InitBlocks /\ [][NextBlocks]_vars

\* C23: a raw segment that one FullFlush step produced from the whole
\* input (the step reports OK with no input left) can be fed to one raw
\* decompression session any number of times in a row: every time the
\* step reports OK, not Ended, consumes the whole segment and produces
\* the plaintext, all of it and nothing more.
C23_FullFlushRepeat ==
    /\ phase # "failed"
    /\ phase \in {"finish", "inflate"} => dstrm.total_in = Len(plain)
    /\ phase = "inflate" /\ ncalls > 0 =>
          /\ istrm.err = Z_OK
          /\ istrm.avail_in = 0
          /\ istrm.avail_out = 0
          /\ istrm.next_out = plain
          /\ istrm.total_in = ncalls * Len(zbuf)
          /\ istrm.total_out = ncalls * Len(plain)

\* the segment of a two-byte plaintext decoded as many times as the loop
\* had time for
C23_Witness ==
    /\ phase = "inflate"
    /\ ncalls = MaxRepeat
    /\ ncalls >= 2
    /\ Len(plain) = MaxLen
    /\ istrm.err = Z_OK
    /\ istrm.next_out = plain
    /\ istrm.total_out = MaxRepeat * MaxLen

\* a Finish step with all the remaining input and o bytes of output space
FinishWith(s, o) == deflate([s EXCEPT !.avail_out = o], plain, Z_FINISH)

\* the session, and the session after each set_dictionary call it accepts
WithDictionary(s) ==
    {s} \cup {sd \in {deflateSetDictionary(s, d) : d \in Dicts} :
                 sd.err = Z_OK}

InitSignal ==
    /\ Init
    /\ dstrm.strategy = Z_DEFAULT_STRATEGY

NextSignal ==
    \/ DeflateStep
    \/ DeflateEnd
    \/ InflateStep

SpecSignal == InitSignal /\ [][NextSignal]_vars

\* what the caller sees of a session, and its dictionary
Seen(s) ==
    <<s.next_in, s.avail_in, s.total_in, s.next_out, s.avail_out,
      s.total_out, s.dict>>

NoError == {Z_OK, Z_STREAM_END, Z_BUF_ERROR}

MaxRuns == 2

InitReset ==
    /\ plain \in Plains
    /\ window_bits \in WindowBits
    /\ \E level \in AllLevels, strategy \in Strategies :
         dstrm = DeflateInit(window_bits, level, strategy)
    /\ istrm = InflateInit(window_bits)
    /\ phase = "deflate"
    /\ ncalls = 0
    /\ consumed_in = 0
    /\ consumed_out = 0
    /\ params = "none"
    /\ NoLocals

\* strm.next_in = plain; strm.avail_in = len(plain);
\* strm.next_out = compressed; strm.avail_out = len(compressed)
Rearm(strm, buf) ==
    [strm EXCEPT !.next_in = 0, !.avail_in = Len(buf),
                 !.next_out = <<>>, !.avail_out = DestLen(Len(buf))]

\* the assertions on the two header bytes; flevel is 0 for Z_BEST_SPEED
HeaderAsserts(compressed, level) ==
    /\ Len(compressed) >= 2
    /\ compressed[1] % 16 = 8
    /\ compressed[1] \div 16 <= 7
    /\ (compressed[2] \div 32) % 2 = 0
    /\ level = Z_BEST_SPEED => compressed[2] \div 64 = 0

\* one run of the loop up to its assertions
ResetFinish ==
    /\ phase = "deflate"
    /\ \E after \in {deflate(Rearm(dstrm, plain), plain, Z_FINISH)} :
          /\ dstrm' = after
          /\ zbuf' = IF ncalls = 0 THEN after.next_out ELSE zbuf
          /\ phase' = IF after.err = Z_STREAM_END
                         /\ (window_bits = WB_ZLIB =>
                               HeaderAsserts(after.next_out, after.level))
                      THEN "ended" ELSE "failed"
    /\ UNCHANGED <<window_bits, plain, istrm, ncalls, consumed_in,
                   consumed_out, params, dictionary, dict1, dict3, buf2_len,
                   zbuf_pos, bits, value>>

\* the next run starts on the session as the last one left it
ResetReset_keep ==
    /\ phase = "ended"
    /\ dstrm' = dstrm
    /\ ncalls' = ncalls + 1
    /\ phase' = IF ncalls + 1 < MaxRuns THEN "deflate" ELSE "reset"
    /\ UNCHANGED <<window_bits, plain, istrm, consumed_in, consumed_out,
                   params, locals>>

\* reset falls back to the level of no compression
ResetReset_relevel ==
    /\ phase = "ended"
    /\ dstrm' = [deflateReset(dstrm) EXCEPT !.level = Z_NO_COMPRESSION]
    /\ ncalls' = ncalls + 1
    /\ phase' = IF ncalls + 1 < MaxRuns THEN "deflate" ELSE "reset"
    /\ UNCHANGED <<window_bits, plain, istrm, consumed_in, consumed_out,
                   params, locals>>

\* deflateReset(strm), its return value not looked at
ResetReset ==
    /\ phase = "ended"
    /\ dstrm' = deflateReset(dstrm)
    /\ ncalls' = ncalls + 1
    /\ phase' = IF ncalls + 1 < MaxRuns THEN "deflate" ELSE "reset"
    /\ UNCHANGED <<window_bits, plain, istrm, consumed_in, consumed_out,
                   params, locals>>

\* finally: deflateEnd(strm), its return value not looked at
ResetEnd ==
    /\ phase = "reset"
    /\ dstrm' = deflateEnd(dstrm)
    /\ phase' = "closed"
    /\ UNCHANGED <<window_bits, plain, istrm, ncalls, consumed_in,
                   consumed_out, params, locals>>

NextReset ==
    \/ ResetFinish
    \/ ResetReset
    \/ ResetEnd

SpecReset == InitReset /\ [][NextReset]_vars

\* a session with extra more bytes of input behind what it has consumed and
\* o bytes of output space
Offered(s, extra, o) == [s EXCEPT !.avail_in = extra, !.avail_out = o]

\* the decompression session that has read the emitted stream to its end,
\* one more byte of input and of output space behind it
EndedInflate ==
    inflate(MakeInflateStream(window_bits, Len(Compressed) + 1,
                              Len(plain) + 1),
            Compressed \o <<0>>, Z_NO_FLUSH)

FLevel(compressed) == compressed[2] \div 64

\* C28: reset of an Ended compression session reports OK and leaves the
\* session as init left it, with the level, the strategy and the framing
\* it was created with, the counters at zero and no history; the caller's
\* buffers are not touched.  The run behind reset emits what the first run
\* emitted, byte for byte, and under zlib framing the level field of its
\* header is the one of the level given at init.
C28_ResetRestores ==
    /\ phase # "failed"
    /\ phase = "ended" =>
          \A r \in {deflateReset(dstrm)} :
             /\ r.err = Z_OK
             /\ Rearm(r, plain)
                   = Rearm(DeflateInit(window_bits, dstrm.level,
                                       dstrm.strategy), plain)
             /\ <<r.next_in, r.avail_in, r.next_out, r.avail_out>>
                   = <<dstrm.next_in, dstrm.avail_in, dstrm.next_out,
                       dstrm.avail_out>>
             /\ r.total_in = 0 /\ r.total_out = 0
    /\ phase = "ended" /\ ncalls = 0 /\ window_bits = WB_ZLIB =>
          FLevel(dstrm.next_out) = LevelFlags(dstrm.level, dstrm.strategy)
    /\ phase = "deflate" /\ ncalls > 0 =>
          /\ dstrm.total_in = 0 /\ dstrm.total_out = 0
          /\ dstrm.status = "INIT"
    /\ phase = "ended" /\ ncalls > 0 =>
          /\ dstrm.next_out = zbuf
          /\ dstrm.total_in = Len(plain)
          /\ dstrm.total_out = Len(zbuf)
          /\ window_bits = WB_ZLIB => FLevel(dstrm.next_out) = FLevel(zbuf)

\* the run behind reset has Ended, under zlib framing at the highest level
C28_Witness ==
    /\ phase = "ended"
    /\ ncalls = 1
    /\ window_bits = WB_ZLIB
    /\ dstrm.level = 9
    /\ dstrm.strategy = Z_DEFAULT_STRATEGY
    /\ Len(plain) = MaxLen
    /\ dstrm.next_out = zbuf
    /\ FLevel(dstrm.next_out) = 3

\* the stream read by a decompression session of framing wb that is given
\* the dictionary when raw, and when the header asks for it
DecodeAs(wb, bytes, dict) ==
    Bind(MakeInflateStream(wb, Len(bytes), Len(plain)), LAMBDA s0 :
    Bind(inflate(IF wb = WB_RAW /\ dict # <<>>
                 THEN inflateSetDictionary(s0, dict) ELSE s0,
                 bytes, Z_NO_FLUSH),
         LAMBDA s1 :
             IF s1.err = Z_NEED_DICT
             THEN inflate(inflateSetDictionary(s1, dict), bytes, Z_NO_FLUSH)
             ELSE s1))

\* the last n bytes
Last(bytes, n) == SubSeq(bytes, Len(bytes) - n + 1, Len(bytes))

\* a complete stream without its first h and its last t bytes
Body(bytes, h, t) == SubSeq(bytes, h + 1, Len(bytes) - t)

ZlibHeaderLen == 2
ZlibTrailerLen == 4

CloseDeflate_early ==
    /\ phase = "deflate"
    /\ dstrm.status # "FREED"
    /\ \E after \in {deflateEnd(dstrm)} :
          /\ dstrm' = after
          /\ phase' = IF after.err = Z_OK THEN "inflate" ELSE "failed"
    /\ UNCHANGED <<window_bits, plain, istrm, ncalls, consumed_in,
                   consumed_out, params, locals>>

\* finally: err = deflateEnd(strm); raise unless Z_OK
CloseDeflate ==
    /\ phase = "inflate"
    /\ dstrm.status # "FREED"
    /\ \E after \in {deflateEnd(dstrm)} :
          /\ dstrm' = after
          /\ phase' = IF after.err = Z_OK THEN "inflate" ELSE "failed"
    /\ UNCHANGED <<window_bits, plain, istrm, ncalls, consumed_in,
                   consumed_out, params, locals>>

\* _check_inflate, called behind the with block of the compression session
CloseCheck ==
    /\ dstrm.status = "FREED"
    /\ CheckInflate

\* finally: err = inflateEnd(strm); raise unless Z_OK
CloseInflate ==
    /\ phase = "done"
    /\ \E after \in {inflateEnd(istrm)} :
          /\ istrm' = after
          /\ phase' = IF after.err = Z_OK THEN "closed" ELSE "failed"
    /\ UNCHANGED <<window_bits, plain, dstrm, ncalls, consumed_in,
                   consumed_out, params, locals>>

NextClose ==
    \/ DeflateStep
    \/ DeflateEnd
    \/ CloseDeflate
    \/ CloseCheck
    \/ CloseInflate

SpecClose == Init /\ [][NextClose]_vars

\* a compression session has no state any more
Released(s) ==
    s.status = "FREED" /\ s.pending = <<>> /\ s.window = <<>> /\ s.dict = <<>>

\* a decompression session has no state any more
ReleasedInflate(s) == s.mode = "FREED" /\ s.have = <<>> /\ s.dict = <<>>

\* the decompression sessions of the other framings, stopped by the stream
Stopped ==
    {r \in {inflate(MakeInflateStream(wb, Len(Compressed), Len(plain)),
                    Compressed, Z_NO_FLUSH) : wb \in WindowBits} :
        r.err = Z_DATA_ERROR}

\* C30: teardown of a session that reached Ended reports OK, and so no
\* test fails in its finally clause.  Teardown releases the state of the
\* session whatever the session was doing and whatever it reports: in the
\* middle of a stream, behind a step that was rejected, behind a stream
\* that stopped the decompressor with an error.  A second teardown finds
\* no state, reports the misuse and changes nothing.
C30_Teardown ==
    /\ phase # "failed"
    /\ phase = "closed" =>
          /\ Released(dstrm) /\ dstrm.err = Z_OK
          /\ ReleasedInflate(istrm) /\ istrm.err = Z_OK
    /\ dstrm.status # "FREED" =>
          \A s \in {dstrm, deflate(dstrm, plain, Z_NO_FLUSH)} :
          \A once \in {deflateEnd(s)} :
          \A twice \in {deflateEnd(once)} :
             /\ Released(once)
             /\ once.err \in {Z_OK, Z_DATA_ERROR}
             /\ s.err = Z_STREAM_END => once.err = Z_OK
             /\ s.status = "FINISH" => once.err = Z_OK
             /\ twice = Ret(once, Z_STREAM_ERROR)
    /\ phase \in {"inflate", "done"} =>
          \A s \in {istrm} \cup Stopped :
          \A once \in {inflateEnd(s)} :
          \A twice \in {inflateEnd(once)} :
             /\ ReleasedInflate(once)
             /\ once.err = Z_OK
             /\ twice = Ret(once, Z_STREAM_ERROR)

\* both sessions of a test were torn down behind Ended, the compression
\* session behind limited steps, and a decompressor of another framing
\* was stopped by the stream
C30_Witness ==
    /\ phase = "closed"
    /\ ncalls = MaxCalls
    /\ Len(plain) = MaxLen
    /\ dstrm.status = "FREED"
    /\ istrm.mode = "FREED"
    /\ istrm.next_out = plain
    /\ Stopped # {}

(***************************************************************************)
(* test_compress2 and test_uncompress2: the one-shot operations, with the  *)
(* input, the level and the lengths of the two destinations drawn.         *)
(* dstrm is what compress2 returned: err, total_out as dest_len, next_out  *)
(* as dest.  buf2_len is len(dest) of uncompress2, consumed_out and        *)
(* consumed_in the dest_len and source_len it returned, istrm its session  *)
(* with err the status returned and next_out as dest.                      *)
(***************************************************************************)
InitOneShot ==
    /\ plain \in Plains
    /\ window_bits = WB_ZLIB
    /\ \E level \in 1..9, dest_len \in 0..deflateBound(MaxLen) :
         dstrm = [DeflateInit(WB_ZLIB, level, Z_DEFAULT_STRATEGY) EXCEPT
                     !.avail_in = Len(plain), !.avail_out = dest_len]
    /\ istrm = InflateInit(WB_ZLIB)
    /\ phase = "compress"
    /\ ncalls = 0
    /\ consumed_in = 0
    /\ consumed_out = 0
    /\ params = "none"
    /\ NoLocals

\* err, dest_len = compress2(dest, len(dest), source, len(source), level)
\* and the three assertions
Compress2 ==
    /\ phase = "compress"
    /\ \E after \in {compress2(dstrm.avail_out, plain, dstrm.level)} :
          /\ dstrm' = after
          /\ phase' = IF /\ after.err = Z_OK
                         /\ after.total_out <= dstrm.avail_out
                         /\ RoundTrip(Take(after.next_out, after.total_out))
                               .next_out = plain
                      THEN "uncompress" ELSE "failed"
    /\ UNCHANGED <<window_bits, plain, istrm, ncalls, consumed_in,
                   consumed_out, params, locals>>

\* err, dest_len, source_len = uncompress2(dest, len(dest), source,
\* len(source)) and the four assertions
Uncompress2 ==
    /\ phase = "uncompress"
    /\ \E n \in 0..MaxLen + 1 :
       \E r \in {uncompress2(n, Compressed)} :
          /\ buf2_len' = n
          /\ istrm' = [r.strm EXCEPT !.err = r.err, !.next_out = r.dest]
          /\ consumed_out' = r.dest_len
          /\ consumed_in' = r.source_len
          /\ phase' = IF /\ r.err = Z_OK
                         /\ r.dest_len <= n
                         /\ r.source_len = Len(Compressed)
                         /\ plain = r.dest
                      THEN "done" ELSE "failed"
    /\ UNCHANGED <<window_bits, plain, dstrm, ncalls, params, dictionary,
                   dict1, dict3, zbuf, zbuf_pos, bits, value>>

NextOneShot ==
    \/ Compress2
    \/ Uncompress2

SpecOneShot == InitOneShot /\ [][NextOneShot]_vars

\* the stream compress2 writes when dest is long enough
Whole ==
    compress2(deflateBound(Len(plain)), plain, dstrm.level).next_out

\* uncompress2 has been called
Uncompressed == phase \in {"done", "failed"} /\ dstrm.err = Z_OK

LongDicts == [1..MaxDist + 1 -> Byte]

\* dict1 = self._set_dictionary(...) with dict1_size above the window size
WinSetDictionary1 ==
    /\ phase = "dict1"
    /\ \E d \in LongDicts :
         \E after \in {deflateSetDictionary(dstrm, d)} :
            /\ dict1' = d
            /\ dstrm' = [after EXCEPT !.next_in = 0, !.avail_in = buf2_len]
            /\ phase' = IF after.err = Z_OK THEN "buf2" ELSE "failed"
    /\ UNCHANGED <<window_bits, plain, istrm, ncalls, consumed_in,
                   consumed_out, params, dictionary, dict3, buf2_len, zbuf,
                   zbuf_pos, bits, value>>

\* dict3 = self._set_dictionary(...) with dict3_size of either kind
WinSetDictionary3 ==
    /\ phase = "dict3"
    /\ \E d \in Dicts \cup LongDicts :
         \E after \in {deflateSetDictionary(dstrm, d)} :
            /\ dict3' = d
            /\ dstrm' = [after EXCEPT !.next_in = buf2_len,
                                      !.avail_in = Len(plain) - buf2_len]
            /\ phase' = IF after.err = Z_OK THEN "buf4" ELSE "failed"
    /\ UNCHANGED <<window_bits, plain, istrm, ncalls, consumed_in,
                   consumed_out, params, dictionary, dict1, buf2_len, zbuf,
                   zbuf_pos, bits, value>>

NextWindow ==
    \/ WinSetDictionary1
    \/ RotBlock
    \/ WinSetDictionary3
    \/ RotFinish
    \/ RotRead
    \/ RotInflate

SpecWindow == InitRotate /\ [][NextWindow]_vars

\* C32: a dictionary longer than the window seeds the history with its
\* last window_size bytes and nothing else, on both sides: the session is
\* the one those bytes alone give.  With such dictionaries the test fails
\* no assertion, the decompressor reads buf2 with the history buf2 was
\* compressed with and buf4 with the history buf4 was compressed with, and
\* it ends with the plaintext, whatever the data is, the first bytes of
\* the dictionary included.
C32_LongDictionary ==
    /\ phase # "failed"
    /\ \A d \in LongDicts :
          /\ deflateSetDictionary(dstrm, d)
                = deflateSetDictionary(dstrm, KeepLast(d))
          /\ phase \in {"read", "inflate"} =>
                inflateSetDictionary(istrm, d)
                  = inflateSetDictionary(istrm, KeepLast(d))
    /\ phase = "buf2" =>
          dstrm.dict = KeepLast(dict1) /\ Len(dstrm.dict) = MaxDist
    /\ phase \in {"buf4", "read", "inflate", "done"} =>
          dstrm.dict = KeepLast(dict1 \o dict3) /\ Len(dstrm.dict) = MaxDist
    /\ phase \in {"read", "inflate", "done"} =>
          /\ istrm.dict \in {KeepLast(dict1), KeepLast(dict1 \o dict3),
                             KeepLast(dict1 \o dict3 \o dict3),
                             KeepLast(dict3 \o dict3 \o dict3)}
          /\ Len(istrm.dict) = MaxDist
          /\ IsPrefix(istrm.next_out, plain)
          /\ istrm.total_out < buf2_len => istrm.dict = KeepLast(dict1)
          /\ istrm.total_out > buf2_len =>
                istrm.dict = dstrm.dict
    /\ phase = "done" =>
          /\ istrm.err = Z_STREAM_END
          /\ istrm.next_out = plain

\* Ended on data that starts with the first byte of dict1, a byte the
\* window has lost, and was compressed with a reference into the window
C32_Witness ==
    /\ phase = "done"
    /\ Len(dict1) = MaxDist + 1
    /\ Len(dict3) = MaxDist + 1
    /\ Len(plain) = MaxLen
    /\ plain[1] = dict1[1]
    /\ \A k \in 2..Len(dict1) : dict1[k] # dict1[1]
    /\ \E k \in 1..Len(dstrm.next_out) :
          IsDictToken(dstrm.next_out[k])
    /\ istrm.next_out = plain

(***************************************************************************)
(* _shl on buffers of any bytes: the bit stream of a buffer is its bytes   *)
(* in order, each read from its least significant bit.                     *)
(***************************************************************************)
\* the longest buffer shifted
ShlLen == 3

\* bytes with their low bits, their high bits, both and neither set
ShlBytes == {0, 1, 90, 128, 165, 255}

\* the buffers _shl is applied to: as many bytes as the bits taken, or more
ShlBufs == UNION {[1..n -> ShlBytes] : n \in 2..ShlLen}

InitShl ==
    /\ plain \in ShlBufs
    /\ zbuf = plain
    /\ bits \in PrimeBits
    /\ window_bits = WB_RAW
    /\ dstrm = DeflateInit(WB_RAW, 0, Z_DEFAULT_STRATEGY)
    /\ istrm = InflateInit(WB_RAW)
    /\ phase = "shl"
    /\ ncalls = 0
    /\ consumed_in = 0
    /\ consumed_out = 0
    /\ params = "none"
    /\ dictionary = <<>>
    /\ dict1 = <<>>
    /\ dict3 = <<>>
    /\ buf2_len = 0
    /\ zbuf_pos = 0
    /\ value = 0

NextShl == PrimeShl

SpecShl == InitShl /\ [][NextShl]_vars

\* bit k of the stream of buf, the first bit being bit 0
BitAt(buf, k) == (buf[k \div 8 + 1] \div 2^(k % 8)) % 2

\* the bit stream of buf
StreamBits(buf) == [k \in 1..8 * Len(buf) |-> BitAt(buf, k - 1)]

\* the n low bits of v, the lowest first
ValueBits(v, n) == [k \in 1..n |-> (v \div 2^(k - 1)) % 2]

\* C33: _shl splits a bit stream without loss.  For every buffer and
\* 0 <= bits < 17 the value returned holds the first `bits` bits of the
\* stream and nothing above them, the buffer keeps its length and its bytes
\* below pos, and the bits of value followed by the bits of buf[pos:] are
\* the original bit stream, in order; the bits the shift has left free at
\* the top of the last byte, behind the end of the stream, are zero.
C33_ShlSplits ==
    phase = "prime" =>
        \A joined \in {ValueBits(value, bits)
                         \o StreamBits(Drop(zbuf, zbuf_pos))} :
           /\ zbuf_pos = bits \div 8
           /\ value < 2^bits
           /\ ValueBits(value, bits) = Take(StreamBits(plain), bits)
           /\ Len(zbuf) = Len(plain)
           /\ Take(zbuf, zbuf_pos) = Take(plain, zbuf_pos)
           /\ Take(joined, 8 * Len(plain)) = StreamBits(plain)
           /\ Len(joined) = 8 * Len(plain) + (bits % 8)
           /\ \A k \in (8 * Len(plain) + 1)..Len(joined) : joined[k] = 0

\* eleven bits off a buffer whose bytes all have high and low bits set:
\* one whole byte and three bits of the next
C33_Witness ==
    /\ phase = "prime"
    /\ bits = 11
    /\ zbuf_pos = 1
    /\ Len(plain) = ShlLen
    /\ \A k \in 1..Len(plain) : plain[k] = 165
    /\ value = 165 + 5 * 256
    /\ zbuf[2] = 180

(***************************************************************************)
(* The drivers deflate.py and inflate.py, run as test_inflate_deflate runs *)
(* them: the standard output of the first is the standard input of the     *)
(* second.  Here plain is the standard input of deflate.py and consumed_in *)
(* the bytes read from it, buf2_len is len(ibuf) of the last read and      *)
(* params the flush chosen after it; zbuf is the pipe, zbuf_pos the bytes  *)
(* inflate.py has read from it, and value the standard output of           *)
(* inflate.py.  phase holds the position of each driver: "read" at the top *)
(* of the outer loop, "step" at the top of the inner loop, "end" behind    *)
(* the loops, "exit" and "failed" when the process is gone.                *)
(***************************************************************************)
\* deflate.py: the size of sys.stdin.buffer.read(16384) and of obuf (8192),
\* scaled down: inputs of several reads, streams of several obufs, and a
\* last obuf with room to spare
DeflateIbuf == 1
DeflateObuf == 3

\* inflate.py: the size of sys.stdin.buffer.read(8192) and of obuf (16384),
\* scaled down likewise
InflateIbuf == 2
InflateObuf == 1

\* the level the engine takes for Z_DEFAULT_COMPRESSION
DefaultLevel == 6

\* the bytes a step has put into obuf: obuf[:len(obuf) - strm.avail_out]
ObufBytes(before, after, size) ==
    Take(Drop(after.next_out, Len(before.next_out)), size - after.avail_out)

InitPipe ==
    /\ plain \in Plains
    /\ window_bits \in WindowBits
    /\ dstrm = DeflateInit(window_bits, DefaultLevel, Z_DEFAULT_STRATEGY)
    /\ istrm = InflateInit(window_bits)
    /\ phase = [d |-> "read", i |-> "read"]
    /\ ncalls = 0
    /\ consumed_in = 0
    /\ consumed_out = 0
    /\ params = "none"
    /\ dictionary = <<>>
    /\ dict1 = <<>>
    /\ dict3 = <<>>
    /\ buf2_len = 0
    /\ zbuf = <<>>
    /\ zbuf_pos = 0
    /\ bits = 0
    /\ value = <<>>

\* Z_FINISH passed whatever the read returned
DriverDeflateRead_finish ==
    /\ phase.d = "read"
    /\ \E n \in {Min(DeflateIbuf, Len(plain) - consumed_in)} :
          /\ dstrm' = [dstrm EXCEPT !.next_in = consumed_in, !.avail_in = n]
          /\ buf2_len' = n
          /\ params' = Z_FINISH
          /\ consumed_in' = consumed_in + n
    /\ phase' = [phase EXCEPT !.d = "step"]
    /\ UNCHANGED <<window_bits, plain, istrm, ncalls, consumed_out,
                   dictionary, dict1, dict3, zbuf, zbuf_pos, bits, value>>

\* deflate.py: ibuf = sys.stdin.buffer.read(16384); next_in, avail_in;
\* flush = Z_FINISH if strm.avail_in == 0 else Z_NO_FLUSH
DriverDeflateRead ==
    /\ phase.d = "read"
    /\ \E n \in {Min(DeflateIbuf, Len(plain) - consumed_in)} :
          /\ dstrm' = [dstrm EXCEPT !.next_in = consumed_in, !.avail_in = n]
          /\ buf2_len' = n
          /\ params' = IF n = 0 THEN Z_FINISH ELSE Z_NO_FLUSH
          /\ consumed_in' = consumed_in + n
    /\ phase' = [phase EXCEPT !.d = "step"]
    /\ UNCHANGED <<window_bits, plain, istrm, ncalls, consumed_out,
                   dictionary, dict1, dict3, zbuf, zbuf_pos, bits, value>>

\* deflate.py: if flush != Z_FINISH and strm.avail_in == 0: break
DriverDeflateBreak ==
    /\ phase.d = "step"
    /\ params # Z_FINISH /\ dstrm.avail_in = 0
    /\ phase' = [phase EXCEPT !.d = "read"]
    /\ UNCHANGED <<window_bits, plain, dstrm, istrm, ncalls, consumed_in,
                   consumed_out, params, locals>>

\* what the step reporting Z_STREAM_END has produced is not written
DriverDeflateStep_lost ==
    /\ phase.d = "step"
    /\ ~(params # Z_FINISH /\ dstrm.avail_in = 0)
    /\ \E fresh \in {[dstrm EXCEPT !.avail_out = DeflateObuf]} :
       \E after \in {deflate(fresh, plain, params)} :
       \E stream_end \in {after.err = Z_STREAM_END /\ params = Z_FINISH} :
          /\ dstrm' = after
          /\ ncalls' = ncalls + 1
          /\ IF after.err # Z_OK /\ ~stream_end
             THEN /\ phase' = [phase EXCEPT !.d = "failed"]
                  /\ zbuf' = zbuf
             ELSE /\ phase' = [phase EXCEPT
                                  !.d = IF stream_end THEN "end" ELSE "step"]
                  /\ zbuf' = IF stream_end THEN zbuf
                             ELSE zbuf
                                  \o ObufBytes(dstrm, after, DeflateObuf)
    /\ UNCHANGED <<window_bits, plain, istrm, consumed_in, consumed_out,
                   params, dictionary, dict1, dict3, buf2_len, zbuf_pos,
                   bits, value>>

\* deflate.py: one pass of the inner loop behind the break: a fresh obuf,
\* rc = deflate(strm, flush), stream_end, the raise, the write
DriverDeflateStep ==
    /\ phase.d = "step"
    /\ ~(params # Z_FINISH /\ dstrm.avail_in = 0)
    /\ \E fresh \in {[dstrm EXCEPT !.avail_out = DeflateObuf]} :
       \E after \in {deflate(fresh, plain, params)} :
       \E stream_end \in {after.err = Z_STREAM_END /\ params = Z_FINISH} :
          /\ dstrm' = after
          /\ ncalls' = ncalls + 1
          /\ IF after.err # Z_OK /\ ~stream_end
             THEN /\ phase' = [phase EXCEPT !.d = "failed"]
                  /\ zbuf' = zbuf
             ELSE /\ phase' = [phase EXCEPT
                                  !.d = IF stream_end THEN "end" ELSE "step"]
                  /\ zbuf' = zbuf \o ObufBytes(dstrm, after, DeflateObuf)
    /\ UNCHANGED <<window_bits, plain, istrm, consumed_in, consumed_out,
                   params, dictionary, dict1, dict3, buf2_len, zbuf_pos,
                   bits, value>>

\* deflate.py: rc = deflateEnd(strm), the raise unless Z_OK
DriverDeflateClose ==
    /\ phase.d = "end"
    /\ \E after \in {deflateEnd(dstrm)} :
          /\ dstrm' = after
          /\ phase' = [phase EXCEPT
                          !.d = IF after.err = Z_OK THEN "exit" ELSE "failed"]
    /\ UNCHANGED <<window_bits, plain, istrm, ncalls, consumed_in,
                   consumed_out, params, locals>>

\* the writing end of the pipe is closed
Closed == phase.d \in {"exit", "failed"}

\* inflate.py: ibuf = sys.stdin.buffer.read(8192); next_in, avail_in.
\* The read returns when it has all the bytes asked for, or at the end of
\* the input with the bytes there are.
DriverInflateRead ==
    /\ phase.i = "read"
    /\ Len(zbuf) - zbuf_pos >= InflateIbuf \/ Closed
    /\ \E n \in {Min(InflateIbuf, Len(zbuf) - zbuf_pos)} :
          /\ istrm' = [istrm EXCEPT !.next_in = zbuf_pos, !.avail_in = n]
          /\ bits' = n
          /\ zbuf_pos' = zbuf_pos + n
    /\ phase' = [phase EXCEPT !.i = "step"]
    /\ UNCHANGED <<window_bits, plain, dstrm, ncalls, consumed_in,
                   consumed_out, params, dictionary, dict1, dict3, buf2_len,
                   zbuf, value>>

\* inflate.py: one pass of the inner loop: a fresh obuf,
\* rc = inflate(strm, Z_NO_FLUSH), stream_end, the break, the raise, the
\* write
DriverInflateStep ==
    /\ phase.i = "step"
    /\ \E fresh \in {[istrm EXCEPT !.avail_out = InflateObuf]} :
       \E after \in {inflate(fresh, zbuf, Z_NO_FLUSH)} :
          /\ istrm' = after
          /\ phase' = [phase EXCEPT
                          !.i = IF after.err = Z_STREAM_END THEN "end"
                                ELSE IF after.err = Z_BUF_ERROR THEN "read"
                                ELSE IF after.err # Z_OK THEN "failed"
                                ELSE "step"]
          /\ value' = IF after.err \in {Z_STREAM_END, Z_OK}
                      THEN value \o ObufBytes(istrm, after, InflateObuf)
                      ELSE value
    /\ UNCHANGED <<window_bits, plain, dstrm, ncalls, consumed_in,
                   consumed_out, params, dictionary, dict1, dict3, buf2_len,
                   zbuf, zbuf_pos, bits>>

\* inflate.py: rc = inflateEnd(strm), the raise unless Z_OK
DriverInflateClose ==
    /\ phase.i = "end"
    /\ \E after \in {inflateEnd(istrm)} :
          /\ istrm' = after
          /\ phase' = [phase EXCEPT
                          !.i = IF after.err = Z_OK THEN "exit" ELSE "failed"]
    /\ UNCHANGED <<window_bits, plain, dstrm, ncalls, consumed_in,
                   consumed_out, params, locals>>

DeflateDriver ==
    \/ DriverDeflateRead
    \/ DriverDeflateBreak
    \/ DriverDeflateStep
    \/ DriverDeflateClose

InflateDriver ==
    \/ DriverInflateRead
    \/ DriverInflateStep
    \/ DriverInflateClose

NextPipe ==
    \/ DeflateDriver
    \/ InflateDriver

\* each process runs until it exits
SpecPipe ==
    InitPipe /\ [][NextPipe]_vars
    /\ WF_vars(DeflateDriver) /\ WF_vars(InflateDriver)

\* a call of the compressor by deflate.py
DriverDeflateCall == ncalls' = ncalls + 1

\* C34: the deflate driver passes Z_FINISH only after a read of standard
\* input returned zero bytes and never calls deflate with Z_NO_FLUSH and no
\* input, so it never receives Z_BUF_ERROR and never raises; every call has
\* a fresh obuf, whose bytes are written; the driver keeps calling until
\* Z_FINISH reports Z_STREAM_END, leaves the loops only then, and then
\* terminates.
C34_FinishAtEnd ==
    /\ [](/\ phase.d # "failed"
          /\ dstrm.err # Z_BUF_ERROR
          /\ params = Z_FINISH => buf2_len = 0 /\ consumed_in = Len(plain)
          /\ phase.d = "end" =>
                dstrm.err = Z_STREAM_END /\ params = Z_FINISH
          /\ phase.d = "exit" => dstrm.status = "FREED")
    /\ [][DriverDeflateCall =>
             /\ params = Z_FINISH \/ dstrm.avail_in > 0
             /\ params = Z_FINISH <=> buf2_len = 0
             /\ Len(zbuf') - Len(zbuf) = DeflateObuf - dstrm'.avail_out
             /\ phase'.d = "end" <=>
                   dstrm'.err = Z_STREAM_END /\ params = Z_FINISH
             /\ phase'.d # "end" => phase'.d = "step" /\ dstrm'.err = Z_OK
          ]_vars
    /\ <>(phase.d = "exit")

\* the driver has exited after two reads, Z_NO_FLUSH calls and more than
\* one Z_FINISH call
C34_Witness ==
    /\ phase.d = "exit"
    /\ Len(plain) = MaxLen
    /\ params = Z_FINISH
    /\ ncalls > 3
    /\ Len(zbuf) > DeflateObuf

\* C36: both drivers write every byte a step produces to standard output
\* exactly once and in order.  What deflate.py has written is what the
\* compressor has produced, the bytes of the step reporting Z_STREAM_END
\* included; what inflate.py has written is what the decompressor has
\* produced, and the step it does not write for reported Z_BUF_ERROR and
\* produced nothing; inflate.py on the output of deflate.py does not fail
\* and has written the input of deflate.py when it leaves its loops.
C36_WrittenOnce ==
    /\ [](/\ zbuf = dstrm.next_out
          /\ value = istrm.next_out
          /\ IsPrefix(value, plain)
          /\ phase.i # "failed"
          /\ phase.i \in {"end", "exit"} => value = plain)
    /\ [][/\ DriverDeflateCall =>
                zbuf' = zbuf \o Drop(dstrm'.next_out, Len(dstrm.next_out))
          /\ phase.i = "step" /\ istrm' # istrm =>
                /\ value' = value
                              \o Drop(istrm'.next_out, Len(istrm.next_out))
                /\ phase'.i = "read" <=> istrm'.err = Z_BUF_ERROR
                /\ istrm'.err = Z_BUF_ERROR =>
                      istrm'.next_out = istrm.next_out
          ]_vars

\* both drivers have exited, each after several writes, the last of them
\* behind the call that reported Z_STREAM_END
C36_Witness ==
    /\ phase.d = "exit"
    /\ phase.i = "exit"
    /\ Len(plain) = MaxLen
    /\ value = plain
    /\ Len(zbuf) > DeflateObuf
    /\ Len(zbuf) % DeflateObuf # 0

(***************************************************************************)
(* inflate.py alone, on a standard input that is a file: a whole stream,   *)
(* or a stream cut short anywhere, the empty file included.  dstrm is the  *)
(* session that wrote the whole stream.                                    *)
(***************************************************************************)
InitTruncated ==
    /\ plain \in Plains
    /\ window_bits \in WindowBits
    /\ dstrm = Compress(window_bits, DefaultLevel, Z_DEFAULT_STRATEGY, plain,
                        0, Z_NO_FLUSH)
    /\ \E n \in 0..Len(dstrm.next_out) : zbuf = Take(dstrm.next_out, n)
    /\ istrm = InflateInit(window_bits)
    /\ phase = [d |-> "exit", i |-> "read"]
    /\ ncalls = 0
    /\ consumed_in = Len(plain)
    /\ consumed_out = 0
    /\ params = Z_FINISH
    /\ dictionary = <<>>
    /\ dict1 = <<>>
    /\ dict3 = <<>>
    /\ buf2_len = 0
    /\ zbuf_pos = 0
    /\ bits = 0
    /\ value = <<>>

NextTruncated == InflateDriver

\* the process runs until it exits
SpecTruncated ==
    InitTruncated /\ [][NextTruncated]_vars /\ WF_vars(InflateDriver)

\* standard input ends before the end of the stream
Truncated == Len(zbuf) < Len(dstrm.next_out)

\* C35 as stated: the inflate driver terminates for every input, and on a
\* standard input that ends before the end of the stream it stops with an
\* error.
C35_Terminates ==
    /\ <>(phase.i \in {"exit", "failed"})
    /\ [](Truncated => phase.i # "exit")

(***************************************************************************)
(* The matrix test: _deflate compresses the generator stream into zfp,     *)
(* _inflate decompresses zfp and compares with the generator stream read   *)
(* anew.  Here plain is the generator stream, consumed_in the bytes gen    *)
(* has handed to _deflate and consumed_out the bytes gen has handed to     *)
(* _inflate; dict1 is ibuf of _deflate and dict3 ibuf of _inflate; zbuf is *)
(* zfp and zbuf_pos the bytes read from it; buf2_len and value are the     *)
(* numbers of (isize, osize) pairs `it` holds in _deflate and in _inflate, *)
(* ncalls and bits the pairs taken; dictionary is the bytes the compressor *)
(* has consumed, call by call.                                             *)
(***************************************************************************)
\* the values of isize and osize: the first values of _sizes
MatrixSizes == 1..MaxLen

\* _deflate: osize of the Z_FINISH calls (8192), a byte for a kilobyte
FinishOsize == 8

\* _inflate: isize and osize behind the pairs (8192, 16384), likewise;
\* isize is more than the header and the trailer of a stream take
RestIsize == 8
RestOsize == 16

\* gen(n) of a Gen that has handed out pos bytes
GenSlice(pos, n) == SubSeq(plain, pos + 1, pos + n)

InitMatrix ==
    /\ plain \in Plains
    /\ window_bits = WB_ZLIB
    /\ dstrm = DeflateInit(WB_ZLIB, DefaultLevel, Z_DEFAULT_STRATEGY)
    /\ istrm = InflateInit(WB_ZLIB)
    /\ phase = "deflate"
    /\ ncalls = 0
    /\ consumed_in = 0
    /\ consumed_out = 0
    /\ params = Z_NO_FLUSH
    /\ dictionary = <<>>
    /\ dict1 = <<>>
    /\ dict3 = <<>>
    /\ buf2_len \in 0..MaxCalls
    /\ zbuf = <<>>
    /\ zbuf_pos = 0
    /\ bits = 0
    /\ value \in {0, buf2_len}

\* del ibuf[:isize]: what was given is dropped, consumed or not
MatrixDrop_given(ibuf, isize, after) == Drop(ibuf, isize)

\* del ibuf[:isize - strm.avail_in]
MatrixDrop(ibuf, isize, after) == Drop(ibuf, isize - after.avail_in)

\* _deflate: one pass of the loop behind the choice of isize, osize, flush
MatrixDeflateStep(isize, osize, flush) ==
    /\ isize - Len(dict1) <= Len(plain) - consumed_in
    /\ \E iextra \in {isize - Len(dict1)} :
       \E ibuf \in {IF iextra > 0
                    THEN dict1 \o GenSlice(consumed_in, iextra)
                    ELSE dict1} :
       \E strm \in {[dstrm EXCEPT !.next_in = 0, !.avail_in = isize,
                                  !.avail_out = osize]} :
       \E after \in {deflate(strm, ibuf, flush)} :
       \E stream_end \in {after.err = Z_STREAM_END /\ flush = Z_FINISH} :
          /\ consumed_in' = IF iextra > 0 THEN consumed_in + iextra
                            ELSE consumed_in
          /\ params' = flush
          /\ IF ~stream_end /\ after.err # Z_OK
             THEN /\ phase' = "failed"
                  /\ dstrm' = after
                  /\ dict1' = ibuf
                  /\ UNCHANGED <<zbuf, dictionary>>
             ELSE /\ dict1' = MatrixDrop(ibuf, isize, after)
                  /\ dictionary' =
                         dictionary \o Take(ibuf, isize - after.avail_in)
                  /\ zbuf' = zbuf \o ObufBytes(dstrm, after, osize)
                  /\ IF stream_end
                     THEN \E ended \in {deflateEnd(after)} :
                             /\ dstrm' = ended
                             /\ phase' = IF ended.err = Z_OK THEN "inflate"
                                         ELSE "failed"
                     ELSE /\ dstrm' = after
                          /\ phase' = "deflate"
    /\ UNCHANGED <<window_bits, plain, istrm, consumed_out, dict3, buf2_len,
                   zbuf_pos, bits, value>>

\* _deflate: isize, osize = next(it); flush = Z_NO_FLUSH
MatrixFeed ==
    /\ phase = "deflate"
    /\ ncalls < buf2_len
    /\ \E isize \in MatrixSizes, osize \in MatrixSizes :
          MatrixDeflateStep(isize, osize, Z_NO_FLUSH)
    /\ ncalls' = ncalls + 1

\* _deflate: StopIteration; isize, osize = len(ibuf), 8192; flush = Z_FINISH
MatrixFinish ==
    /\ phase = "deflate"
    /\ ncalls >= buf2_len
    /\ MatrixDeflateStep(Len(dict1), FinishOsize, Z_FINISH)
    /\ ncalls' = ncalls

\* _read_n(ifp, n)
read_n(n) == SubSeq(zbuf, zbuf_pos + 1, Min(zbuf_pos + n, Len(zbuf)))

\* _inflate: one pass of the loop behind the choice of isize and osize; the
\* break on Z_STREAM_END comes before the comparison
MatrixInflateStep(isize0, osize) ==
    \E iextra \in {isize0 - Len(dict3)} :
    \E ibuf \in {IF iextra > 0 THEN dict3 \o read_n(iextra) ELSE dict3} :
    \E isize \in {IF iextra > 0 /\ isize0 > Len(ibuf) THEN Len(ibuf)
                  ELSE isize0} :
    \E strm \in {[istrm EXCEPT !.next_in = 0, !.avail_in = isize,
                               !.avail_out = osize]} :
    \E after \in {inflate(strm, ibuf, Z_NO_FLUSH)} :
    \E produced \in {ObufBytes(istrm, after, osize)} :
       /\ zbuf_pos' = zbuf_pos + (Len(ibuf) - Len(dict3))
       /\ IF after.err = Z_STREAM_END
          THEN /\ phase' = "done"
               /\ istrm' = after
               /\ dict3' = ibuf
               /\ UNCHANGED consumed_out
          ELSE IF after.err # Z_OK
          THEN /\ phase' = "failed"
               /\ istrm' = after
               /\ dict3' = ibuf
               /\ UNCHANGED consumed_out
          ELSE /\ dict3' = Drop(ibuf, isize - after.avail_in)
               /\ consumed_out' = consumed_out + Len(produced)
               /\ istrm' = after
               /\ phase' = IF GenSlice(consumed_out, Len(produced))
                                # produced
                           THEN "failed" ELSE "inflate"
       /\ UNCHANGED <<window_bits, plain, dstrm, ncalls, consumed_in, params,
                      dictionary, dict1, buf2_len, zbuf, value>>

\* _inflate: isize, osize = next(it)
MatrixInflatePair ==
    /\ phase = "inflate"
    /\ bits < value
    /\ \E isize \in MatrixSizes, osize \in MatrixSizes :
          MatrixInflateStep(isize, osize)
    /\ bits' = bits + 1

\* _inflate: StopIteration; isize, osize = 8192, 16384
MatrixInflateRest ==
    /\ phase = "inflate"
    /\ bits >= value
    /\ MatrixInflateStep(RestIsize, RestOsize)
    /\ bits' = bits

NextMatrix ==
    \/ MatrixFeed
    \/ MatrixFinish
    \/ MatrixInflatePair
    \/ MatrixInflateRest

SpecMatrix == InitMatrix /\ [][NextMatrix]_vars

\* C37 as stated: in the matrix test every byte the decompressor produces
\* is compared with the generator stream, the bytes of the step that
\* reports Z_STREAM_END included: when _inflate is through, gen has been
\* asked for as many bytes as the decompressor has produced.
C37_AllCompared ==
    /\ phase \in {"inflate", "done"} => consumed_out <= istrm.total_out
    /\ phase = "done" => consumed_out = istrm.total_out

\* the bytes the compressor has consumed in a step of _deflate
ConsumedNow == Drop(dictionary', Len(dictionary))

\* C38: _deflate feeds the generator stream to the compressor without
\* skipping or duplicating a byte.  In every step the retained bytes
\* followed by the bytes newly taken from gen are the bytes the compressor
\* consumes followed by the bytes retained afterwards, so the unconsumed
\* tail comes first in the next step; a Z_FINISH step takes nothing from
\* gen and presents exactly the retained bytes; at every point the bytes
\* consumed followed by the bytes retained are the bytes gen has handed
\* out, the bytes consumed are a prefix of the generator stream, and when
\* the session has ended nothing is retained and zfp holds the stream of
\* exactly the bytes gen has handed out.
C38_NoSkipNoDup ==
    /\ [](/\ phase \in {"deflate", "inflate", "done"}
          /\ dictionary \o dict1 = Take(plain, consumed_in)
          /\ IsPrefix(dictionary, plain)
          /\ Len(dictionary) = dstrm.total_in
          /\ phase \in {"inflate", "done"} =>
                /\ dict1 = <<>>
                /\ dictionary = Take(plain, consumed_in)
                /\ DecodeAs(WB_ZLIB, zbuf, <<>>).err = Z_STREAM_END
                /\ DecodeAs(WB_ZLIB, zbuf, <<>>).next_out = dictionary)
    /\ [][phase = "deflate" =>
             /\ ConsumedNow \o dict1'
                   = dict1 \o GenSlice(consumed_in, consumed_in' - consumed_in)
             /\ Len(ConsumedNow) = dstrm'.total_in - dstrm.total_in
             /\ dictionary' = dictionary \o ConsumedNow
             /\ params' = Z_FINISH =>
                   /\ consumed_in' = consumed_in
                   /\ Len(ConsumedNow) + dstrm'.avail_in = Len(dict1)
          ]_vars

\* the session has ended after a Z_NO_FLUSH step that left a byte it was
\* given unconsumed, and a step that took that byte first
C38_Witness ==
    /\ phase = "inflate"
    /\ ncalls = MaxCalls
    /\ Len(plain) = MaxLen
    /\ consumed_in = MaxLen
    /\ dictionary = plain
    /\ dict1 = <<>>
    /\ dstrm.total_out = Len(zbuf)

(***************************************************************************)
(* Gen and the generators behind _make_gen: Gen(gen_mix(random.Random(s))) *)
(* built twice from one seed and read with request sizes of the reader's   *)
(* choice, as _deflate and _inflate read theirs.  Here bits is the seed,   *)
(* dict1 the Gen read on the compression side and dict3 the Gen read on    *)
(* the decompression side, zbuf and value the bytes each has returned so   *)
(* far, buf2_len and zbuf_pos the n of the last call of each.              *)
(***************************************************************************)
\* the random number generator: a state, and the value of every draw is
\* the state the draw leaves
RngMod == 31
RngNext(r) == (7 * r + 3) % RngMod

\* the length of the chunks of gen_nulls, gen_zeros_ones and gen_random
\* (4096), and the largest n of gen_mix (65536), scaled down
SubChunk == 2
MixMax == 3

\* the most bytes read from a Gen, and the largest request
MaxStream == 4
MaxReq == 3

\* the sub-generators in the order of gs
G_HELLO == 1
G_SEQ == 2
G_NULLS == 3
G_ZEROS_ONES == 4
G_RANDOM == 5

\* a Gen over gen_mix: the generator r, the counter of gen_seq, the buffer
\* of each Gen of gs, and its own buffer
NewGen(seed) ==
    [r |-> seed, i |-> 0, subs |-> [k \in 1..5 |-> <<>>], buffer |-> <<>>]

\* n draws one after the other: the states they leave
RECURSIVE Draws(_, _)
Draws(r, n) ==
    IF n = 0 THEN <<>> ELSE <<RngNext(r)>> \o Draws(RngNext(r), n - 1)

\* next(chunks) of the sub-generator k: <<the chunk, the Gen behind it>>
SubNext(g, k) ==
    IF k = G_HELLO THEN <<(<<104, 10>>), g>>
    ELSE IF k = G_SEQ THEN <<(<<48 + g.i, 10>>), [g EXCEPT !.i = @ + 1]>>
    ELSE IF k = G_NULLS THEN <<[j \in 1..SubChunk |-> 0], g>>
    ELSE Bind(Draws(g.r, SubChunk), LAMBDA ds :
            <<[j \in 1..SubChunk |->
                  IF k = G_ZEROS_ONES THEN 48 + (ds[j] % 2) ELSE ds[j]],
              [g EXCEPT !.r = ds[SubChunk]]>>)

\* the while loop of Gen.__call__ on the Gen k of gs
RECURSIVE SubFill(_, _, _)
SubFill(g, k, n) ==
    IF Len(g.subs[k]) >= n THEN g
    ELSE Bind(SubNext(g, k), LAMBDA c :
            SubFill([c[2] EXCEPT !.subs[k] = @ \o c[1]], k, n))

\* next(chunks) of gen_mix: r.choice(gs)(r.randint(1, 65536)); the Gen is
\* chosen, then n is drawn, then the Gen is called
MixNext(g) ==
    Bind(RngNext(g.r), LAMBDA r1 :
    Bind(RngNext(r1), LAMBDA r2 :
    Bind((r1 % 5) + 1, LAMBDA k :
    Bind(1 + (r2 % MixMax), LAMBDA n :
    Bind(SubFill([g EXCEPT !.r = r2], k, n), LAMBDA g1 :
        <<Take(g1.subs[k], n), [g1 EXCEPT !.subs[k] = Drop(@, n)]>>)))))

\* the while loop of Gen.__call__ on the Gen over gen_mix
RECURSIVE MixFill(_, _)
MixFill(g, n) ==
    IF Len(g.buffer) >= n THEN g
    ELSE Bind(MixNext(g), LAMBDA c :
            MixFill([c[2] EXCEPT !.buffer = @ \o c[1]], n))

\* the whole buffer dropped behind a call
GenCall_clear(g, n) ==
    Bind(MixFill(g, n), LAMBDA g1 :
        <<Take(g1.buffer, n), [g1 EXCEPT !.buffer = <<>>]>>)

\* Gen.__call__(n): <<result, the Gen afterwards>>
GenCall(g, n) ==
    Bind(MixFill(g, n), LAMBDA g1 :
        <<Take(g1.buffer, n), [g1 EXCEPT !.buffer = Drop(@, n)]>>)

InitGen ==
    /\ bits \in 0..RngMod - 1
    /\ dict1 = NewGen(bits)
    /\ dict3 = NewGen(bits)
    /\ zbuf = <<>>
    /\ value = <<>>
    /\ buf2_len = 0
    /\ zbuf_pos = 0
    /\ plain = <<>>
    /\ window_bits = WB_ZLIB
    /\ dstrm = DeflateInit(WB_ZLIB, DefaultLevel, Z_DEFAULT_STRATEGY)
    /\ istrm = InflateInit(WB_ZLIB)
    /\ phase = "deflate"
    /\ ncalls = 0
    /\ consumed_in = 0
    /\ consumed_out = 0
    /\ params = "none"
    /\ dictionary = <<>>

\* ibuf.extend(gen(iextra)) in _deflate
GenReadDeflate ==
    /\ \E n \in 0..MaxReq :
          /\ Len(zbuf) + n <= MaxStream
          /\ \E c \in {GenCall(dict1, n)} :
                /\ zbuf' = zbuf \o c[1]
                /\ dict1' = c[2]
                /\ buf2_len' = n
    /\ UNCHANGED <<window_bits, plain, dstrm, istrm, phase, ncalls,
                   consumed_in, consumed_out, params, dictionary, dict3,
                   zbuf_pos, bits, value>>

\* gen(osize - strm.avail_out) in _inflate
GenReadInflate ==
    /\ \E n \in 0..MaxReq :
          /\ Len(value) + n <= MaxStream
          /\ \E c \in {GenCall(dict3, n)} :
                /\ value' = value \o c[1]
                /\ dict3' = c[2]
                /\ zbuf_pos' = n
    /\ UNCHANGED <<window_bits, plain, dstrm, istrm, phase, ncalls,
                   consumed_in, consumed_out, params, dictionary, dict1,
                   buf2_len, zbuf, bits>>

NextGen ==
    \/ GenReadDeflate
    \/ GenReadInflate

SpecGen == InitGen /\ [][NextGen]_vars

\* the first n bytes of the stream of a seed, read a byte at a time
RECURSIVE ByteByByte(_, _)
ByteByByte(g, n) ==
    IF n = 0 THEN <<>>
    ELSE Bind(GenCall(g, 1), LAMBDA c : c[1] \o ByteByByte(c[2], n - 1))

\* the first n bytes of the stream of a seed, read in one call
AtOnce(seed, n) == GenCall(NewGen(seed), n)[1]

\* C39: the byte stream of a Gen built from a seed does not depend on the
\* request sizes.  Each call Gen(n) returns exactly n bytes, and these are
\* the bytes of the stream behind the ones returned before; the bytes two
\* Gen objects of one seed have returned, read with whatever request
\* sizes, are both the beginning of the one stream of the seed, which is
\* the same read a byte at a time and read in one call.
C39_SameStream ==
    /\ [](/\ zbuf = AtOnce(bits, Len(zbuf))
          /\ value = AtOnce(bits, Len(value))
          /\ zbuf = ByteByByte(NewGen(bits), Len(zbuf))
          /\ IsPrefix(zbuf, value) \/ IsPrefix(value, zbuf))
    /\ [][/\ zbuf' # zbuf \/ dict1' # dict1 \/ buf2_len' # buf2_len =>
                /\ Len(zbuf') = Len(zbuf) + buf2_len'
                /\ zbuf' = zbuf \o SubSeq(AtOnce(bits, Len(zbuf')),
                                          Len(zbuf) + 1, Len(zbuf'))
          /\ value' # value \/ dict3' # dict3 \/ zbuf_pos' # zbuf_pos =>
                /\ Len(value') = Len(value) + zbuf_pos'
                /\ value' = value \o SubSeq(AtOnce(bits, Len(value')),
                                            Len(value) + 1, Len(value'))
          ]_vars

\* the two Gen objects have returned the same bytes, read with different
\* request sizes; bytes are left in the buffer of the Gen and in the
\* buffer of a sub-generator that draws from r
C39_Witness ==
    /\ Len(zbuf) = MaxStream
    /\ value = zbuf
    /\ buf2_len = 1
    /\ zbuf_pos = MaxReq
    /\ dict1.buffer # <<>>
    /\ dict1.subs[G_RANDOM] # <<>>
    /\ \E j \in 1..Len(zbuf) : zbuf[j] = 10

(***************************************************************************)
(* _sequence_of_sizes, a generator: every yield is a step.  Here zbuf is   *)
(* the sequence yielded so far, ncalls and consumed_in are the indices i   *)
(* and j of the two enumerations, counted from 0, and phase is the yield   *)
(* the generator comes to next.                                            *)
(***************************************************************************)
\* _sizes: for i in range(2, 19), with fewer powers of two
SizesEnd == 5

RECURSIVE SizesFrom(_)
SizesFrom(i) ==
    IF i >= SizesEnd THEN <<>>
    ELSE <<2^i - 1, 2^i, 2^i + 1>> \o SizesFrom(i + 1)

\* list(_sizes())
Sizes == <<1, 2>> \o SizesFrom(2)

\* the value enumerate() gives with index k
SizeAt(k) == Sizes[k + 1]

InitSizes ==
    /\ zbuf = <<>>
    /\ ncalls = 0
    /\ consumed_in = 0
    /\ phase = "x0"
    /\ plain = <<>>
    /\ window_bits = WB_ZLIB
    /\ dstrm = DeflateInit(WB_ZLIB, DefaultLevel, Z_DEFAULT_STRATEGY)
    /\ istrm = InflateInit(WB_ZLIB)
    /\ consumed_out = 0
    /\ params = "none"
    /\ dictionary = <<>>
    /\ dict1 = <<>>
    /\ dict3 = <<>>
    /\ buf2_len = 0
    /\ zbuf_pos = 0
    /\ bits = 0
    /\ value = 0

\* what no step of the generator touches
SizesFrame ==
    UNCHANGED <<window_bits, plain, dstrm, istrm, consumed_out, params,
                dictionary, dict1, dict3, buf2_len, zbuf_pos, bits, value>>

\* the generator behind a yield of the body of the outer loop comes to the
\* next x, or to its end
SizesNextX(i) ==
    IF i + 1 < Len(Sizes)
    THEN /\ ncalls' = i + 1
         /\ phase' = "x"
    ELSE /\ ncalls' = i
         /\ phase' = "done"

\* _, x0 = next(it_x); yield x0
SizesYieldFirst ==
    /\ phase = "x0"
    /\ zbuf' = zbuf \o <<SizeAt(0)>>
    /\ phase' = "x0 again"
    /\ UNCHANGED <<ncalls, consumed_in>>
    /\ SizesFrame

\* the second yield x0; for i, x in it_x
SizesYieldFirstAgain ==
    /\ phase = "x0 again"
    /\ zbuf' = zbuf \o <<SizeAt(0)>>
    /\ SizesNextX(0)
    /\ UNCHANGED consumed_in
    /\ SizesFrame

\* the first yield x
SizesYieldX ==
    /\ phase = "x"
    /\ zbuf' = zbuf \o <<SizeAt(ncalls)>>
    /\ phase' = "x again"
    /\ UNCHANGED <<ncalls, consumed_in>>
    /\ SizesFrame

\* the inner loop entered without the second yield x
SizesYieldXAgain_once ==
    /\ phase = "x again"
    /\ zbuf' = zbuf
    /\ consumed_in' = 1
    /\ phase' = IF 1 = ncalls THEN "y0" ELSE "y"
    /\ UNCHANGED ncalls
    /\ SizesFrame

\* the second yield x; it_y; _, y0 = next(it_y); for j, y in it_y:
\* if j == i: break
SizesYieldXAgain ==
    /\ phase = "x again"
    /\ zbuf' = zbuf \o <<SizeAt(ncalls)>>
    /\ consumed_in' = 1
    /\ phase' = IF 1 = ncalls THEN "y0" ELSE "y"
    /\ UNCHANGED ncalls
    /\ SizesFrame

\* yield y
SizesYieldY ==
    /\ phase = "y"
    /\ zbuf' = zbuf \o <<SizeAt(consumed_in)>>
    /\ phase' = "x behind y"
    /\ UNCHANGED <<ncalls, consumed_in>>
    /\ SizesFrame

\* yield x behind yield y; the next j, y; if j == i: break
SizesYieldXBehindY ==
    /\ phase = "x behind y"
    /\ zbuf' = zbuf \o <<SizeAt(ncalls)>>
    /\ consumed_in' = consumed_in + 1
    /\ phase' = IF consumed_in + 1 = ncalls THEN "y0" ELSE "y"
    /\ UNCHANGED ncalls
    /\ SizesFrame

\* yield y0; the next i, x
SizesYieldY0 ==
    /\ phase = "y0"
    /\ zbuf' = zbuf \o <<SizeAt(0)>>
    /\ SizesNextX(ncalls)
    /\ UNCHANGED consumed_in
    /\ SizesFrame

NextSizes ==
    \/ SizesYieldFirst
    \/ SizesYieldFirstAgain
    \/ SizesYieldX
    \/ SizesYieldXAgain
    \/ SizesYieldY
    \/ SizesYieldXBehindY
    \/ SizesYieldY0

SpecSizes == InitSizes /\ [][NextSizes]_vars

\* x and y are two consecutive elements of s
Adjacent(s, x, y) == \E k \in 1..Len(s) - 1 : s[k] = x /\ s[k + 1] = y

\* C40: each value of _sizes is distinct, and the sequence produced by
\* _sequence_of_sizes contains every ordered pair (x, y) of values of
\* _sizes, x = y included, as two consecutive elements.  While the
\* generator runs, the pairs of the values before the x it has come to are
\* there already, and so are the pairs of x with itself and with the
\* values before y.
C40_AllPairs ==
    /\ \A a, b \in 1..Len(Sizes) : a # b => Sizes[a] # Sizes[b]
    /\ \A k \in 1..Len(zbuf) : \E a \in 1..Len(Sizes) : zbuf[k] = Sizes[a]
    /\ phase \in {"x", "done"} =>
          \A a, b \in 0..(IF phase = "done" THEN ncalls ELSE ncalls - 1) :
             Adjacent(zbuf, SizeAt(a), SizeAt(b))
    /\ phase \in {"y", "y0"} =>
          /\ Adjacent(zbuf, SizeAt(ncalls), SizeAt(ncalls))
          /\ Adjacent(zbuf, SizeAt(0), SizeAt(ncalls))
          /\ \A b \in 1..consumed_in - 1 :
                /\ Adjacent(zbuf, SizeAt(ncalls), SizeAt(b))
                /\ Adjacent(zbuf, SizeAt(b), SizeAt(ncalls))
    /\ phase = "done" =>
          /\ ncalls = Len(Sizes) - 1
          /\ \A a, b \in 1..Len(Sizes) : Adjacent(zbuf, Sizes[a], Sizes[b])

\* the generator has come to its end
C40_Witness ==
    /\ phase = "done"
    /\ Len(zbuf) = Len(Sizes) * Len(Sizes) + 1
    /\ Adjacent(zbuf, Sizes[Len(Sizes)], Sizes[Len(Sizes)])
    /\ Adjacent(zbuf, Sizes[Len(Sizes)], Sizes[2])
    /\ Adjacent(zbuf, Sizes[2], Sizes[Len(Sizes)])
====
